---- MODULE Spec2Model ----
(***************************************************************************)
(* A model of eventdispatch/core.py: one EventDispatch channel (its        *)
(* registration table, its FIFO queue of notification threads and the      *)
(* queue worker), the process-wide Event id counter, and the callers of    *)
(* register / unregister / post_event.                                     *)
(***************************************************************************)
EXTENDS Integers, Sequences, FiniteSets, TLC

(* ---- bounds of the model ---- *)

\* Events constructed in one behaviour (caps Event.__id).
MaxEvents == 4

\* Notification threads queued or running when a caller of FairSpec makes a call
\* (the queue itself is unbounded).
MaxPending == 1

(* ---- names and callbacks ---- *)

ALL_EVENTS == "*"

HANDLER_REGISTERED == "event_dispatch.handler_registered"

HANDLER_UNREGISTERED == "event_dispatch.handler_unregistered"

\* Callbacks (compared by identity, as Python compares bound methods).
Handlers == {"h1", "h2"}

\* exclude_handler = None
None == "None"

\* Names a caller passes to register / unregister / post_event.
EventNames == {"a", HANDLER_REGISTERED, HANDLER_UNREGISTERED}

\* Keys the registration table can hold.
Keys == EventNames \cup {ALL_EVENTS}

\* InvalidEventError's error kind, the name of the event its construction posts.
INVALID_EVENTS == "invalid_events"

\* Names a caller passes to EventDispatch.post_event.
PostNames == Keys \cup {""}

\* The name lists callers pass (the empty list means "all events").
EventLists ==
    {<<>>, <<"a">>, <<HANDLER_REGISTERED>>, <<HANDLER_UNREGISTERED>>,
     <<"a", HANDLER_UNREGISTERED>>, <<HANDLER_REGISTERED, "a">>,
     <<ALL_EVENTS>>, <<"a", "">>}

VARIABLES
    event_handlers,  \* EventDispatch.__event_handlers: name -> list of callbacks
    event_queue,     \* EventDispatch.__event_queue: threads not yet started
    next_id,         \* Event.__id
    threads,         \* started notification threads whose callback has not run yet
    posted,          \* history: the Event constructed last
    raised,          \* history: the exception the last call raised ("" if none)
    held,            \* history: (callback, key) pairs registered and not unregistered since
    changed,         \* history: the keys the last call that changed the table added or removed
    observed,        \* history: one post, picked when it is made, and who was registered then
    calls,           \* history: how often each callback was invoked with the observed event
    lock,            \* synchronized(self): the caller inside "with synchronized(self)"
    calling,         \* per concurrent caller: its call, where it is in it, what its post chose
    before,          \* history: the table when the concurrent calls were made
    idlock,          \* the lock of Event.generate_id: the constructor inside it
    making,          \* per concurrent Event constructor: where it is in generate_id
    issued,          \* history: the ids generate_id has returned
    events_to_map,   \* EventMap.__events_to_map: the events the map was built for
    event_to_post,   \* EventMap.__event_to_post
    events_to_watch, \* EventMap.__events_to_watch: name -> expected payload
    on_event,        \* the thread inside EventMap.on_event and where it is
    fired,           \* history: what the map has posted
    event_maps,      \* EventMapManager.__event_maps: key -> the EventMap stored under it
    maps,            \* the EventMap objects maps_events has constructed, in order
    posts,           \* history: the events the last call or callback posted, in order
    returned,        \* history: the key the last map_events returned (<<>> if none)
    built,           \* history: the last two watch lists given to build_key, with their keys
    event_dispatchers,         \* EventDispatchManager.__event_dispatchers: the channel names held
    event_log,                 \* EventDispatch.__event_log of the default channel
    log_event,                 \* EventDispatch.__log_event
    log_event_if_no_handlers,  \* EventDispatch.__log_event_if_no_handlers
    event_mapper,              \* EventDispatch.__event_mapper
    logged,                    \* history: the events appended to event_log, in order
    locks,                     \* the locks of wrapt's synchronized: owner and depth of each
    running                    \* per thread of LockSpec: the lock operations its call has left

vars == <<event_handlers, event_queue, next_id, threads, posted, raised, held,
          changed, observed, calls, lock, calling, before, idlock, making, issued,
          events_to_map, event_to_post, events_to_watch, on_event, fired,
          event_maps, maps, posts, returned, built, event_dispatchers, event_log,
          log_event, log_event_if_no_handlers, event_mapper, logged, locks, running>>

\* The state of the concurrent callers; the calls of a single caller leave it alone.
concvars == <<lock, calling, before>>

\* The state of the concurrent Event constructors.
idvars == <<idlock, making, issued>>

\* The channels of the dispatch manager, the default channel's diagnostic log
\* and its event mapper.
chanvars == <<event_dispatchers, event_log, log_event, log_event_if_no_handlers,
              event_mapper, logged>>

\* The locks and the threads that take them; the actions that run a call in
\* one step leave them alone.
lockvars == <<locks, running>>

\* The state of the event map.
mapvars == <<events_to_map, event_to_post, events_to_watch, on_event, fired,
             event_maps, maps, posts, returned, built>>

\* The state of the map manager; a map built without a manager leaves it alone.
mgrvars == <<event_maps, maps, posts, returned, built>>

(* ---- lists ---- *)

\* handler in handlers
InList(h, s) == \E i \in DOMAIN s : s[i] = h

\* the members of a list
Members(s) == {s[i] : i \in DOMAIN s}

\* list.remove(h): drops the first occurrence
ListRemove(s, h) ==
    LET i == CHOOSE k \in DOMAIN s : s[k] = h /\ \A j \in 1..(k - 1) : s[j] # h
    IN  SubSeq(s, 1, i - 1) \o SubSeq(s, i + 1, Len(s))

(* ---- the registration table ---- *)

\* dict.get(key, [])
Get(t, k) == IF k \in DOMAIN t THEN t[k] ELSE <<>>

\* dict[key] = value
Put(t, k, v) == [x \in (DOMAIN t) \cup {k} |-> IF x = k THEN v ELSE t[x]]

\* __register_for_event without "if handler not in handlers"
register_for_event_always(t, h, e) ==
    [t |-> Put(t, e, Append(Get(t, e), h)), ok |-> TRUE]

\* EventDispatch.__register_for_event
register_for_event(t, h, e) ==
    IF e \in DOMAIN t
    THEN IF ~InList(h, t[e])
         THEN [t |-> Put(t, e, Append(t[e], h)), ok |-> TRUE]
         ELSE [t |-> t, ok |-> FALSE]
    ELSE [t |-> Put(t, e, <<h>>), ok |-> TRUE]

\* EventDispatch.__unregister_from_event
unregister_from_event(t, h, e) ==
    LET hs == Get(t, e)
    IN  IF ~InList(h, hs)
        THEN [t |-> t, ok |-> FALSE]
        ELSE [t |-> Put(t, e, ListRemove(hs, h)), ok |-> TRUE]

\* EventDispatch.__validate_events: TRUE when no name is empty or the sentinel
validate_events(events) ==
    \A i \in DOMAIN events : events[i] # "" /\ events[i] # ALL_EVENTS

\* "if not events: events = [self.__ALL_EVENTS]"
EffectiveEvents(events) == IF events = <<>> THEN <<ALL_EVENTS>> ELSE events

\* the loop of register with "is_registered_for_event" set by the last name only
RECURSIVE RegisterLoopLast(_, _, _, _)
RegisterLoopLast(t, h, events, i) ==
    IF i > Len(events)
    THEN [t |-> t, any |-> FALSE]
    ELSE LET r == register_for_event(t, h, events[i])
             rest == RegisterLoopLast(r.t, h, events, i + 1)
         IN  [t |-> rest.t, any |-> IF i = Len(events) THEN r.ok ELSE rest.any]

\* the loop of register over the names, inside the lock
RECURSIVE RegisterLoop(_, _, _, _)
RegisterLoop(t, h, events, i) ==
    IF i > Len(events)
    THEN [t |-> t, any |-> FALSE]
    ELSE LET r == register_for_event(t, h, events[i])
             rest == RegisterLoop(r.t, h, events, i + 1)
         IN  [t |-> rest.t, any |-> r.ok \/ rest.any]

\* the loop of unregister over the names, inside the lock
RECURSIVE UnregisterLoop(_, _, _, _)
UnregisterLoop(t, h, events, i) ==
    IF i > Len(events)
    THEN [t |-> t, any |-> FALSE]
    ELSE LET r == unregister_from_event(t, h, events[i])
             rest == UnregisterLoop(r.t, h, events, i + 1)
         IN  [t |-> rest.t, any |-> r.ok \/ rest.any]

(* ---- post_event ---- *)

\* the combining loop without "handler not in event_handlers"
RECURSIVE CombineNoDedup(_, _, _, _)
CombineNoDedup(evh, all, excl, i) ==
    IF i > Len(all)
    THEN evh
    ELSE CombineNoDedup(IF all[i] # excl THEN Append(evh, all[i]) ELSE evh,
                        all, excl, i + 1)

\* "for handler in all_event_handlers: if handler not in event_handlers and
\*  handler != exclude_handler: event_handlers.append(handler)"
RECURSIVE Combine(_, _, _, _)
Combine(evh, all, excl, i) ==
    IF i > Len(all)
    THEN evh
    ELSE Combine(IF ~InList(all[i], evh) /\ all[i] # excl
                 THEN Append(evh, all[i]) ELSE evh,
                 all, excl, i + 1)

\* post_event notifying every callback of the table, whatever its name
PostHandlersAnyName(t, name, excl) ==
    LET ks == CHOOSE q \in [1..Cardinality(DOMAIN t) -> DOMAIN t] :
                  \A k \in DOMAIN t : \E i \in DOMAIN q : q[i] = k
        RECURSIVE Gather(_, _)
        Gather(acc, i) ==
            IF i > Len(ks) THEN acc ELSE Gather(Combine(acc, t[ks[i]], excl, 1), i + 1)
    IN  Gather(Get(t, name), 1)

\* The list post_event notifies. event_handlers = dict.get(name, []) is the
\* table's own list when the name is a key, so the appends land in the table.
PostHandlers(t, name, excl) == Combine(Get(t, name), Get(t, ALL_EVENTS), excl, 1)

\* The table after post_event.
PostTable(t, name, excl) ==
    IF name \in DOMAIN t THEN Put(t, name, PostHandlers(t, name, excl)) ELSE t

\* The threads post_event puts on the queue, one per handler, in list order.
Units(id, name, hs) ==
    [i \in 1..Len(hs) |-> [id |-> id, name |-> name, handler |-> hs[i], pos |-> i]]

\* The callbacks registered for the name or for all events in table t.
Registered(t, name) == Members(Get(t, name)) \cup Members(Get(t, ALL_EVENTS))

\* the payload's 'events' without "if events == [self.__ALL_EVENTS]: events = []"
AdminPayloadEventsRaw(events) == events

\* The payload's 'events' of a handler_registered / handler_unregistered event
\* (EventDispatch.__post_admin_event_registration).
AdminPayloadEvents(events) == IF events = <<ALL_EVENTS>> THEN <<>> ELSE events

(* ---- events ---- *)

\* An Event as the model keeps it: its id, its name and, of the payload of a
\* handler_registered / handler_unregistered event, 'events' and 'handler'.
NewEvent(id, name, events, h) == [id |-> id, name |-> name, events |-> events, handler |-> h]

NoEvent == NewEvent(0, "", <<>>, None)

NoObserved == [id |-> 0, registered |-> {}]

\* Threads that call register / unregister / post_event at the same time.
Callers == {"t1", "t2"}

\* Threads that construct Events at the same time.
Makers == {"m1", "m2"}

\* a constructor's position, the Event.__id it has read, and the largest id
\* that had been returned when it began
Making(pc, local, floor) == [pc |-> pc, local |-> local, floor |-> floor]

\* An event as a map is given it: a name and a payload.
MapEvent(name, payload) == [name |-> name, payload |-> payload]

\* no thread is inside on_event
NotInOnEvent == [pc |-> "idle", id |-> 0]

\* History of a map: how many times it posted its event and mapping_triggered,
\* with which ids and payloads; whether a delivery of a name already removed has
\* returned before the map fired (repeated) and whether a delivery has returned
\* after it fired (late).
NotFired ==
    [composites |-> 0, triggers |-> 0, composite_id |-> 0, triggered_id |-> 0,
     composite_payload |-> <<>>, triggered_payload |-> <<>>,
     repeated |-> FALSE, late |-> FALSE]

\* Threads that make calls at the same time in LockSpec.
LockThreads == {"t1", "t2", "t3"}

\* a caller that makes no call
NoCall == [op |-> "none", handler |-> None, events |-> <<>>, name |-> ""]

\* a caller's call, its position in it, and the list its post_event notified
Calling(call, pc, chosen) == [call |-> call, pc |-> pc, chosen |-> chosen]

Init ==
    /\ event_handlers = <<>>
    /\ event_queue = <<>>
    /\ next_id = 0
    /\ threads = {}
    /\ posted = NoEvent
    /\ raised = ""
    /\ held = {}
    /\ changed = {}
    /\ observed = NoObserved
    /\ calls = [h \in Handlers |-> 0]
    /\ lock = None
    /\ calling = [c \in Callers |-> Calling(NoCall, "done", <<>>)]
    /\ before = <<>>
    /\ idlock = None
    /\ making = [m \in Makers |-> Making("idle", 0, 0)]
    /\ issued = {}
    /\ events_to_map = <<>>
    /\ event_to_post = MapEvent("", <<>>)
    /\ events_to_watch = <<>>
    /\ on_event = NotInOnEvent
    /\ fired = NotFired
    /\ event_maps = <<>>
    /\ maps = <<>>
    /\ posts = <<>>
    /\ returned = <<>>
    /\ built = <<>>
    /\ event_dispatchers = {""}
    /\ event_log = <<>>
    /\ log_event = FALSE
    /\ log_event_if_no_handlers = FALSE
    /\ event_mapper = None
    /\ logged = <<>>
    \* synchronized(self) of the default channel and of the channel "x",
    \* @synchronized of the EventMap's on_event and of Event.generate_id:
    \* nobody holds them, no thread has made its call
    /\ locks = [l \in {"", "x", "map", "id"} |-> [owner |-> None, depth |-> 0]]
    /\ running = [th \in LockThreads |-> [pc |-> "idle", ops |-> <<>>]]

\* EventDispatch.post_event(name, payload, exclude_handler) on the default
\* channel. Event(name) raises InvalidEventError for an empty name, and the
\* error's construction posts an invalid_events event first.
post_event(name, excl, watch) ==
    /\ next_id < MaxEvents
    /\ LET id == next_id + 1
           n == IF name = "" THEN INVALID_EVENTS ELSE name
           x == IF name = "" THEN None ELSE excl
           hs == PostHandlers(event_handlers, n, x)
       IN  /\ next_id' = id
           /\ event_handlers' = PostTable(event_handlers, n, x)
           /\ event_queue' = event_queue \o Units(id, n, hs)
           /\ posted' = NewEvent(id, n, IF name = "" THEN <<name>> ELSE <<>>, None)
           /\ raised' = IF name = "" THEN "InvalidEventError" ELSE ""
           /\ IF watch
              THEN /\ observed.id = 0
                   /\ observed' = [id |-> id,
                          registered |-> Registered(event_handlers, n) \ {x}]
              ELSE UNCHANGED observed
    /\ UNCHANGED <<threads, held, changed, calls>>

\* post_event called by a single caller
PostEvent(name, excl, watch) == post_event(name, excl, watch) /\ UNCHANGED <<concvars, idvars, chanvars, lockvars, mapvars>>

\* __post_admin_event_registration that notifies the callbacks registered
\* before the call
PostAdminStale(t, h, evs, is_registered) ==
    LET id == next_id + 1
        name == IF is_registered THEN HANDLER_REGISTERED ELSE HANDLER_UNREGISTERED
        hs == PostHandlers(event_handlers, name, None)
    IN  /\ next_id < MaxEvents
        /\ next_id' = id
        /\ event_handlers' = PostTable(t, name, None)
        /\ event_queue' = event_queue \o Units(id, name, hs)
        /\ posted' = NewEvent(id, name, AdminPayloadEvents(evs), h)

\* EventDispatch.__post_admin_event_registration, from table t
PostAdmin(t, h, evs, is_registered) ==
    LET id == next_id + 1
        name == IF is_registered THEN HANDLER_REGISTERED ELSE HANDLER_UNREGISTERED
        hs == PostHandlers(t, name, None)
    IN  /\ next_id < MaxEvents
        /\ next_id' = id
        /\ event_handlers' = PostTable(t, name, None)
        /\ event_queue' = event_queue \o Units(id, name, hs)
        /\ posted' = NewEvent(id, name, AdminPayloadEvents(evs), h)

\* EventDispatch.register(handler, events). "raise InvalidEventError" gives the
\* class no 'events' argument, so what is raised is a TypeError.
Register(h, events) ==
    IF ~validate_events(events)
    THEN /\ raised' = "TypeError"
         /\ UNCHANGED <<event_handlers, event_queue, next_id, threads, posted, held,
                        changed, observed, calls, concvars, idvars, chanvars, lockvars, mapvars>>
    ELSE LET evs == EffectiveEvents(events)
             r == RegisterLoop(event_handlers, h, evs, 1)
         IN  /\ raised' = ""
             /\ held' = held \cup {<<h, evs[i]>> : i \in DOMAIN evs}
             /\ UNCHANGED <<threads, observed, calls, concvars, idvars, chanvars, lockvars, mapvars>>
             /\ IF r.any
                THEN /\ PostAdmin(r.t, h, evs, TRUE)
                     /\ changed' = {k \in Keys : Get(r.t, k) # Get(event_handlers, k)}
                ELSE /\ event_handlers' = r.t
                     /\ UNCHANGED <<next_id, event_queue, posted, changed>>

\* EventDispatch.unregister(handler, events)
Unregister(h, events) ==
    IF ~validate_events(events)
    THEN /\ raised' = "TypeError"
         /\ UNCHANGED <<event_handlers, event_queue, next_id, threads, posted, held,
                        changed, observed, calls, concvars, idvars, chanvars, lockvars, mapvars>>
    ELSE LET evs == EffectiveEvents(events)
             r == UnregisterLoop(event_handlers, h, evs, 1)
         IN  /\ raised' = ""
             /\ held' = held \ {<<h, evs[i]>> : i \in DOMAIN evs}
             /\ UNCHANGED <<threads, observed, calls, concvars, idvars, chanvars, lockvars, mapvars>>
             /\ IF r.any
                THEN /\ PostAdmin(r.t, h, evs, FALSE)
                     /\ changed' = {k \in Keys : Get(r.t, k) # Get(event_handlers, k)}
                ELSE /\ event_handlers' = r.t
                     /\ UNCHANGED <<next_id, event_queue, posted, changed>>

\* a worker that takes the thread off the queue and never starts it
MonitorEventQueueNoStart ==
    /\ event_queue # <<>>
    /\ event_queue' = Tail(event_queue)
    /\ UNCHANGED <<event_handlers, next_id, threads, posted, raised, held, changed,
                   observed, calls, concvars, idvars, chanvars, lockvars, mapvars>>

\* a worker that takes the thread put on the queue last
MonitorEventQueueLast ==
    /\ event_queue # <<>>
    /\ threads' = threads \cup {event_queue[Len(event_queue)]}
    /\ event_queue' = SubSeq(event_queue, 1, Len(event_queue) - 1)
    /\ UNCHANGED <<event_handlers, next_id, posted, raised, held, changed, observed,
                   calls, concvars, idvars, chanvars, lockvars, mapvars>>

\* a worker that joins the thread it started before it takes the next one
MonitorEventQueueJoin ==
    /\ event_queue # <<>>
    /\ threads = {}
    /\ threads' = {Head(event_queue)}
    /\ event_queue' = Tail(event_queue)
    /\ UNCHANGED <<event_handlers, next_id, posted, raised, held, changed, observed,
                   calls, concvars, idvars, chanvars, lockvars, mapvars>>

\* EventDispatch.monitor_event_queue: one turn of the worker's loop
MonitorEventQueue ==
    /\ event_queue # <<>>
    /\ threads' = threads \cup {Head(event_queue)}
    /\ event_queue' = Tail(event_queue)
    /\ UNCHANGED <<event_handlers, next_id, posted, raised, held, changed, observed,
                   calls, concvars, idvars, chanvars, lockvars, mapvars>>

\* A started thread runs its target: handler(event)
RunThread(u) ==
    /\ u \in threads
    /\ threads' = threads \ {u}
    /\ calls' = IF u.id = observed.id
                THEN [calls EXCEPT ![u.handler] = @ + 1]
                ELSE calls
    /\ UNCHANGED <<event_handlers, event_queue, next_id, posted, raised, held, changed,
                   observed, concvars, idvars, chanvars, lockvars, mapvars>>

\* In Spec a caller calls when the notifications of the earlier calls have been
\* delivered; register, unregister and post_event read neither the queue nor
\* the threads.
Idle == event_queue = <<>> /\ threads = {}

Next ==
    \/ Idle /\ \E h \in Handlers, events \in EventLists : Register(h, events)
    \/ Idle /\ \E h \in Handlers, events \in EventLists : Unregister(h, events)
    \/ Idle /\ \E name \in PostNames, excl \in Handlers \cup {None} :
                  PostEvent(name, excl, FALSE)
    \/ MonitorEventQueue
    \/ \E u \in threads : RunThread(u)

Spec == Init /\ [][Next]_vars

(* ---- callers that do not wait for delivery, and fair scheduling ---- *)

\* In FairSpec a caller calls while at most MaxPending notifications are queued
\* or running.
Room == Len(event_queue) + Cardinality(threads) <= MaxPending

\* The name lists, names and excluded handlers the callers of FairSpec pass.
FairLists == {<<>>, <<"a">>}

FairNames == {"a"}

FairExcluded == {"h1", None}

FairNext ==
    \/ Room /\ \E h \in Handlers, events \in FairLists : Register(h, events)
    \/ Room /\ \E h \in Handlers, events \in FairLists : Unregister(h, events)
    \/ Room /\ \E name \in FairNames, excl \in FairExcluded, watch \in BOOLEAN :
                  PostEvent(name, excl, watch)
    \/ MonitorEventQueue
    \/ \E u \in threads : RunThread(u)

\* Every notification thread there can be.
AllUnits ==
    [id : 1..MaxEvents, name : Keys \cup {INVALID_EVENTS}, handler : Handlers,
     pos : 1..Cardinality(Handlers)]

\* The worker thread (a daemon thread in "while True") and every started
\* notification thread get scheduled.
FairSpec ==
    /\ Init /\ [][FairNext]_vars
    /\ WF_vars(MonitorEventQueue)
    /\ \A u \in AllUnits : WF_vars(RunThread(u))

(* ---- concurrent callers ---- *)

\* The name lists and names the concurrent callers pass.
ConcLists == {<<>>, <<HANDLER_REGISTERED>>, <<"a", "">>}

ConcNames == {"a", HANDLER_REGISTERED}

\* The calls the concurrent callers make.
ConcCalls ==
    [op : {"register", "unregister"}, handler : Handlers, events : ConcLists, name : {""}]
    \cup [op : {"post"}, handler : {None}, events : {<<>>}, name : ConcNames]

\* Every caller has returned.
AllDone == \A c \in Callers : calling[c].pc = "done"

\* No caller is making a call.
NoCalls == \A c \in Callers : calling[c] = Calling(NoCall, "done", <<>>)

\* The callers make their calls at the same time (a caller may also make none).
BeginRound ==
    /\ NoCalls
    /\ Idle
    /\ \E cs \in [Callers -> ConcCalls \cup {NoCall}] :
          calling' = [c \in Callers |->
                         Calling(cs[c], IF cs[c] = NoCall THEN "done" ELSE "start", <<>>)]
    /\ before' = event_handlers
    /\ UNCHANGED <<event_handlers, event_queue, next_id, threads, posted, raised, held,
                   changed, observed, calls, lock, idvars, chanvars, lockvars, mapvars>>

\* register / unregister: __validate_events, which raises before the lock is asked for
CallerValidate(c) ==
    /\ calling[c].pc = "start"
    /\ calling[c].call.op # "post"
    /\ IF validate_events(calling[c].call.events)
       THEN /\ calling' = [calling EXCEPT ![c].pc = "valid"]
            /\ UNCHANGED raised
       ELSE /\ calling' = [calling EXCEPT ![c].pc = "done"]
            /\ raised' = "TypeError"
    /\ UNCHANGED <<event_handlers, event_queue, next_id, threads, posted, held, changed,
                   observed, calls, lock, before, idvars, chanvars, lockvars, mapvars>>

\* "with synchronized(self):" entered, by register / unregister for the loop, by
\* post_event (called by a caller or by __post_admin_event_registration) for its body
CallerAcquire(c) ==
    /\ lock = None
    /\ \/ calling[c].pc = "valid" /\ calling' = [calling EXCEPT ![c].pc = "locked"]
       \/ /\ calling[c].pc = "start" /\ calling[c].call.op = "post"
          /\ calling' = [calling EXCEPT ![c].pc = "posting"]
       \/ calling[c].pc = "mutated" /\ calling' = [calling EXCEPT ![c].pc = "posting"]
    /\ lock' = c
    /\ UNCHANGED <<event_handlers, event_queue, next_id, threads, posted, raised, held,
                   changed, observed, calls, before, idvars, chanvars, lockvars, mapvars>>

\* The locked block of register / unregister, to the release of the lock.
CallerMutate(c) ==
    LET call == calling[c].call
        evs == EffectiveEvents(call.events)
        r == IF call.op = "register"
             THEN RegisterLoop(event_handlers, call.handler, evs, 1)
             ELSE UnregisterLoop(event_handlers, call.handler, evs, 1)
        pairs == {<<call.handler, evs[i]>> : i \in DOMAIN evs}
    IN  /\ calling[c].pc = "locked"
        /\ lock = c
        /\ event_handlers' = r.t
        /\ held' = IF call.op = "register" THEN held \cup pairs ELSE held \ pairs
        /\ changed' = IF r.any
                      THEN {k \in Keys : Get(r.t, k) # Get(event_handlers, k)}
                      ELSE changed
        /\ raised' = ""
        /\ calling' = [calling EXCEPT ![c].pc = IF r.any THEN "mutated" ELSE "done"]
        /\ lock' = None
        /\ UNCHANGED <<event_queue, next_id, threads, posted, observed, calls, before,
                       idvars, chanvars, lockvars, mapvars>>

\* The body of post_event, to the release of the lock.
CallerPost(c) ==
    LET call == calling[c].call
        name == IF call.op = "post" THEN call.name
                ELSE IF call.op = "register" THEN HANDLER_REGISTERED
                ELSE HANDLER_UNREGISTERED
    IN  /\ calling[c].pc = "posting"
        /\ lock = c
        /\ IF call.op = "post"
           THEN post_event(call.name, None, FALSE)
           ELSE /\ PostAdmin(event_handlers, call.handler, EffectiveEvents(call.events),
                             call.op = "register")
                /\ UNCHANGED <<threads, raised, held, changed, observed, calls>>
        /\ calling' = [calling EXCEPT ![c].pc = "done",
                          ![c].chosen = PostHandlers(event_handlers, name, None)]
        /\ lock' = None
        /\ UNCHANGED <<before, idvars, chanvars, lockvars, mapvars>>

\* The calls have returned and the callers go on to other things.
EndRound ==
    /\ AllDone
    /\ ~NoCalls
    /\ calling' = [c \in Callers |-> Calling(NoCall, "done", <<>>)]
    /\ before' = event_handlers
    /\ UNCHANGED <<event_handlers, event_queue, next_id, threads, posted, raised, held,
                   changed, observed, calls, lock, idvars, chanvars, lockvars, mapvars>>

\* The worker and the notification threads read neither the table nor the lock;
\* here they run when the callers have returned.
ConcNext ==
    \/ BeginRound
    \/ EndRound
    \/ \E c \in Callers : CallerValidate(c)
    \/ \E c \in Callers : CallerAcquire(c)
    \/ \E c \in Callers : CallerMutate(c)
    \/ \E c \in Callers : CallerPost(c)
    \/ NoCalls /\ MonitorEventQueue
    \/ NoCalls /\ \E u \in threads : RunThread(u)

ConcSpec == Init /\ [][ConcNext]_vars

\* A call made by a caller alone, from table t: the table it leaves.
CallTable(t, call) ==
    IF call.op = "post" THEN PostTable(t, call.name, None)
    ELSE IF call.op = "none" \/ ~validate_events(call.events) THEN t
    ELSE LET evs == EffectiveEvents(call.events)
             r == IF call.op = "register"
                  THEN RegisterLoop(t, call.handler, evs, 1)
                  ELSE UnregisterLoop(t, call.handler, evs, 1)
             name == IF call.op = "register" THEN HANDLER_REGISTERED
                     ELSE HANDLER_UNREGISTERED
         IN  IF r.any THEN PostTable(r.t, name, None) ELSE r.t

\* A post_event call made by a caller alone, from table t: the list it notifies.
CallChosen(t, call) == PostHandlers(t, call.name, None)

\* The orders in which the callers' calls can be made one after the other.
Orders == {<<"t1", "t2">>, <<"t2", "t1">>}

(* ---- callbacks that may never return ---- *)

\* Notification threads queued or running when a caller of WorkerFairSpec makes
\* a call.
MaxStuck == 3

Crowded == Len(event_queue) + Cardinality(threads) > MaxStuck

\* Callers register, unregister and post "a" while threads started earlier are
\* still running.
StuckNext ==
    \/ ~Crowded /\ \E h \in Handlers, events \in FairLists : Register(h, events)
    \/ ~Crowded /\ \E h \in Handlers, events \in FairLists : Unregister(h, events)
    \/ ~Crowded /\ PostEvent("a", None, FALSE)
    \/ MonitorEventQueue
    \/ \E u \in threads : RunThread(u)

\* The worker thread gets scheduled; a started notification thread may never
\* return.
WorkerFairSpec == Init /\ [][StuckNext]_vars /\ WF_vars(MonitorEventQueue)

(* ---- concurrent Event constructors ---- *)

\* What the constructors leave alone.
dispatchvars ==
    <<event_handlers, event_queue, threads, posted, raised, held, changed, observed, calls>>

\* the largest id returned so far
LastIssued == IF issued = {} THEN 0 ELSE CHOOSE i \in issued : \A j \in issued : j <= i

\* Event.__init__ reaches Event.generate_id()
EventInit(m) ==
    /\ making[m].pc = "idle"
    /\ next_id < MaxEvents
    /\ making' = [making EXCEPT ![m] = Making("call", 0, LastIssued)]
    /\ UNCHANGED <<next_id, idlock, issued, dispatchvars, concvars, chanvars, lockvars, mapvars>>

\* generate_id entered without its lock
GenerateIdEnterUnlocked(m) ==
    /\ making[m].pc = "call"
    /\ idlock' = m
    /\ making' = [making EXCEPT ![m].pc = "locked"]
    /\ UNCHANGED <<next_id, issued, dispatchvars, concvars, chanvars, lockvars, mapvars>>

\* @synchronized: the lock of generate_id is taken
GenerateIdEnter(m) ==
    /\ making[m].pc = "call"
    /\ idlock = None
    /\ idlock' = m
    /\ making' = [making EXCEPT ![m].pc = "locked"]
    /\ UNCHANGED <<next_id, issued, dispatchvars, concvars, chanvars, lockvars, mapvars>>

\* "Event.__id += 1": the load
GenerateIdLoad(m) ==
    /\ making[m].pc = "locked"
    /\ making' = [making EXCEPT ![m].pc = "loaded", ![m].local = next_id]
    /\ UNCHANGED <<next_id, idlock, issued, dispatchvars, concvars, chanvars, lockvars, mapvars>>

\* "Event.__id += 1": the store
GenerateIdStore(m) ==
    /\ making[m].pc = "loaded"
    /\ next_id' = making[m].local + 1
    /\ making' = [making EXCEPT ![m].pc = "stored"]
    /\ UNCHANGED <<idlock, issued, dispatchvars, concvars, chanvars, lockvars, mapvars>>

\* "return Event.__id", and the lock is released
GenerateIdReturn(m) ==
    /\ making[m].pc = "stored"
    /\ issued' = issued \cup {next_id}
    /\ making' = [making EXCEPT ![m].pc = "idle", ![m].local = next_id]
    /\ idlock' = None
    /\ UNCHANGED <<next_id, dispatchvars, concvars, chanvars, lockvars, mapvars>>

IdNext ==
    \/ \E m \in Makers : EventInit(m)
    \/ \E m \in Makers : GenerateIdEnter(m)
    \/ \E m \in Makers : GenerateIdLoad(m)
    \/ \E m \in Makers : GenerateIdStore(m)
    \/ \E m \in Makers : GenerateIdReturn(m)

IdSpec == Init /\ [][IdNext]_vars

(* ---- an event map ---- *)

\* Events constructed in one behaviour of MapSpec.
MaxMapEvents == 7

\* Notification threads queued or started when a caller of MapSpec posts.
MaxMapPending == 1

\* EventMap.on_event, the callback the map registers
ON_EVENT == "on_event"

MAPPING_TRIGGERED == "event_map.mapping_triggered"

\* the key the map is constructed with
MapKey == "key"

\* dict.get(key): None when the key is missing
DictGet(d, k) == IF k \in DOMAIN d THEN d[k] ELSE None

\* on_event's loop over payload_to_watch.items(): no expected key whose value
\* differs from event.payload.get(key)
PayloadMatches(expected, payload) ==
    \A k \in DOMAIN expected : DictGet(payload, k) = expected[k]

\* {event.name: event.payload for event in events_to_map}
WatchOf(events) ==
    [n \in {events[i].name : i \in DOMAIN events} |->
        LET last == CHOOSE i \in DOMAIN events :
                        /\ events[i].name = n
                        /\ \A j \in DOMAIN events : events[j].name = n => j <= i
        IN  events[last].payload]

\* [event.name for event in events_to_map]
MappedEvents(events) == [i \in DOMAIN events |-> events[i].name]

\* "del self.__events_to_watch[name]"
DictDel(d, k) == [n \in (DOMAIN d) \ {k} |-> d[n]]

\* The lists of events a map is built for, the event it posts, and the events
\* callers post.
MapLists ==
    {<<MapEvent("a", <<>>)>>,
     <<MapEvent("a", ("k" :> "v1")), MapEvent("b", <<>>)>>,
     <<MapEvent("a", ("k" :> None))>>}

EventToPost == MapEvent("c", ("x" :> "v1"))

MapNames == {"a", "b"}

MapPayloads == {<<>>, ("k" :> "v1"), ("k" :> "v2"), ("k" :> "v1" @@ "x" :> "v2")}

\* The threads post_event puts on the queue, with the event's payload.
PayloadUnits(id, name, payload, hs) ==
    [i \in 1..Len(hs) |->
        [id |-> id, name |-> name, handler |-> hs[i], pos |-> i, payload |-> payload]]

\* post_event(name, payload) from table t
PostFrom(t, name, payload) ==
    LET id == next_id + 1
        hs == PostHandlers(t, name, None)
    IN  /\ next_id < MaxMapEvents
        /\ next_id' = id
        /\ event_handlers' = PostTable(t, name, None)
        /\ event_queue' = event_queue \o PayloadUnits(id, name, payload, hs)
        /\ posted' = NewEvent(id, name, <<>>, None)

\* EventMap.__init__ with a valid list: the map registers on_event for the
\* names of its events
NewEventMap(events) ==
    LET names == MappedEvents(events)
        r == RegisterLoop(event_handlers, ON_EVENT, names, 1)
    IN  /\ events_to_map = <<>>
        /\ events_to_map' = events
        /\ event_to_post' = EventToPost
        /\ events_to_watch' = WatchOf(events)
        /\ held' = held \cup {<<ON_EVENT, names[i]>> : i \in DOMAIN names}
        /\ IF r.any
           THEN PostFrom(r.t, HANDLER_REGISTERED, <<>>)
           ELSE event_handlers' = r.t /\ UNCHANGED <<next_id, event_queue, posted>>
        /\ UNCHANGED <<threads, raised, changed, observed, calls, on_event, fired,
                       concvars, idvars, chanvars, lockvars,
                   mgrvars>>

\* a caller's post_event(name, payload)
CallerPostsEvent(name, payload) ==
    /\ Len(event_queue) + Cardinality(threads) <= MaxMapPending
    /\ PostFrom(event_handlers, name, payload)
    /\ UNCHANGED <<threads, raised, held, changed, observed, calls, concvars, idvars, chanvars, lockvars,
                   mapvars>>

\* on_event without "except KeyError" around the lookup: a name that is not
\* watched counts as expected.
OnEventRefire(u) ==
    /\ u \in threads
    /\ u.handler = ON_EVENT
    /\ on_event.pc = "idle"
    /\ threads' = threads \ {u}
    /\ IF u.name \in DOMAIN events_to_watch
          => PayloadMatches(events_to_watch[u.name], u.payload)
       THEN /\ events_to_watch' = DictDel(events_to_watch, u.name)
            /\ on_event' = IF DOMAIN events_to_watch \subseteq {u.name}
                           THEN [pc |-> "post", id |-> u.id]
                           ELSE NotInOnEvent
       ELSE UNCHANGED <<events_to_watch, on_event>>
    /\ fired' = [fired EXCEPT
                    !.repeated = @ \/ (fired.composites = 0
                                        /\ u.name \notin DOMAIN events_to_watch),
                    !.late = @ \/ fired.triggers > 0]
    /\ UNCHANGED <<event_handlers, event_queue, next_id, posted, raised, held, changed,
                   observed, calls, events_to_map, event_to_post, concvars, idvars, chanvars, lockvars,
                   mgrvars>>

\* on_event that posts as soon as one name has been removed ("if not
\* self.__events_to_watch" dropped).
OnEventEager(u) ==
    /\ u \in threads
    /\ u.handler = ON_EVENT
    /\ on_event.pc = "idle"
    /\ threads' = threads \ {u}
    /\ IF u.name \in DOMAIN events_to_watch
          /\ PayloadMatches(events_to_watch[u.name], u.payload)
       THEN /\ events_to_watch' = DictDel(events_to_watch, u.name)
            /\ on_event' = [pc |-> "post", id |-> u.id]
       ELSE UNCHANGED <<events_to_watch, on_event>>
    /\ fired' = [fired EXCEPT
                    !.repeated = @ \/ (fired.composites = 0
                                        /\ u.name \notin DOMAIN events_to_watch),
                    !.late = @ \/ fired.triggers > 0]
    /\ UNCHANGED <<event_handlers, event_queue, next_id, posted, raised, held, changed,
                   observed, calls, events_to_map, event_to_post, concvars, idvars, chanvars, lockvars,
                   mgrvars>>

\* on_event that watches a name again when the name comes a second time.
OnEventRearm(u) ==
    /\ u \in threads
    /\ u.handler = ON_EVENT
    /\ on_event.pc = "idle"
    /\ threads' = threads \ {u}
    /\ IF u.name \in DOMAIN events_to_watch
       THEN IF PayloadMatches(events_to_watch[u.name], u.payload)
            THEN /\ events_to_watch' = DictDel(events_to_watch, u.name)
                 /\ on_event' = IF DOMAIN events_to_watch = {u.name}
                                THEN [pc |-> "post", id |-> u.id]
                                ELSE NotInOnEvent
            ELSE UNCHANGED <<events_to_watch, on_event>>
       ELSE /\ events_to_watch' =
                    [n \in DOMAIN events_to_watch \cup {u.name} |->
                        WatchOf(events_to_map)[n]]
            /\ UNCHANGED on_event
    /\ fired' = [fired EXCEPT
                    !.repeated = @ \/ (fired.composites = 0
                                        /\ u.name \notin DOMAIN events_to_watch),
                    !.late = @ \/ fired.triggers > 0]
    /\ UNCHANGED <<event_handlers, event_queue, next_id, posted, raised, held, changed,
                   observed, calls, events_to_map, event_to_post, concvars, idvars, chanvars, lockvars,
                   mgrvars>>

\* A started thread runs EventMap.on_event(event): it takes the map's lock,
\* looks the name up, compares the payloads and deletes the name; it returns
\* unless that was the last name.
OnEvent(u) ==
    /\ u \in threads
    /\ u.handler = ON_EVENT
    /\ on_event.pc = "idle"
    /\ threads' = threads \ {u}
    /\ IF u.name \in DOMAIN events_to_watch
          /\ PayloadMatches(events_to_watch[u.name], u.payload)
       THEN /\ events_to_watch' = DictDel(events_to_watch, u.name)
            /\ on_event' = IF DOMAIN events_to_watch = {u.name}
                           THEN [pc |-> "post", id |-> u.id]
                           ELSE NotInOnEvent
       ELSE UNCHANGED <<events_to_watch, on_event>>
    /\ fired' = [fired EXCEPT
                    !.repeated = @ \/ (fired.composites = 0
                                        /\ u.name \notin DOMAIN events_to_watch),
                    !.late = @ \/ fired.triggers > 0]
    /\ UNCHANGED <<event_handlers, event_queue, next_id, posted, raised, held, changed,
                   observed, calls, events_to_map, event_to_post, concvars, idvars, chanvars, lockvars,
                   mgrvars>>

\* on_event: "self.__event_dispatch.post_event(self.__event_to_post.name, ...)"
OnEventPost ==
    /\ on_event.pc = "post"
    /\ PostFrom(event_handlers, event_to_post.name, event_to_post.payload)
    /\ on_event' = [on_event EXCEPT !.pc = "stop"]
    /\ fired' = [fired EXCEPT !.composites = @ + 1, !.composite_id = next_id + 1,
                               !.composite_payload = event_to_post.payload]
    /\ UNCHANGED <<threads, raised, held, changed, observed, calls, events_to_map,
                   event_to_post, events_to_watch, concvars, idvars, chanvars, lockvars,
                   mgrvars>>

\* stop that unregisters from the first mapped name only
OnEventStopFirst ==
    LET names == SubSeq(MappedEvents(events_to_map), 1, 1)
        r == UnregisterLoop(event_handlers, ON_EVENT, names, 1)
    IN  /\ on_event.pc = "stop"
        /\ held' = held \ {<<ON_EVENT, names[i]>> : i \in DOMAIN names}
        /\ IF r.any
           THEN PostFrom(r.t, HANDLER_UNREGISTERED, <<>>)
           ELSE event_handlers' = r.t /\ UNCHANGED <<next_id, event_queue, posted>>
        /\ on_event' = [on_event EXCEPT !.pc = "triggered"]
        /\ UNCHANGED <<threads, raised, changed, observed, calls, events_to_map,
                       event_to_post, events_to_watch, fired, concvars, idvars, chanvars, lockvars,
                   mgrvars>>

\* stop: "self.__event_dispatch.unregister(self.on_event, self.__mapped_events)"
OnEventStop ==
    LET names == MappedEvents(events_to_map)
        r == UnregisterLoop(event_handlers, ON_EVENT, names, 1)
    IN  /\ on_event.pc = "stop"
        /\ held' = held \ {<<ON_EVENT, names[i]>> : i \in DOMAIN names}
        /\ IF r.any
           THEN PostFrom(r.t, HANDLER_UNREGISTERED, <<>>)
           ELSE event_handlers' = r.t /\ UNCHANGED <<next_id, event_queue, posted>>
        /\ on_event' = [on_event EXCEPT !.pc = "triggered"]
        /\ UNCHANGED <<threads, raised, changed, observed, calls, events_to_map,
                       event_to_post, events_to_watch, fired, concvars, idvars, chanvars, lockvars,
                   mgrvars>>

\* stop: "post_event(MAPPING_TRIGGERED, {'key': self.__key})"; on_event returns
\* and the map's lock is released
OnEventTriggered ==
    /\ on_event.pc = "triggered"
    /\ PostFrom(event_handlers, MAPPING_TRIGGERED, ("key" :> MapKey))
    /\ on_event' = NotInOnEvent
    /\ fired' = [fired EXCEPT !.triggers = @ + 1, !.triggered_id = next_id + 1,
                               !.triggered_payload = ("key" :> MapKey)]
    /\ UNCHANGED <<threads, raised, held, changed, observed, calls, events_to_map,
                   event_to_post, events_to_watch, concvars, idvars, chanvars, lockvars,
                   mgrvars>>

MapNext ==
    \/ \E events \in MapLists : NewEventMap(events)
    \/ \E name \in MapNames, payload \in MapPayloads : CallerPostsEvent(name, payload)
    \/ MonitorEventQueue
    \/ \E u \in threads : OnEvent(u)
    \/ OnEventPost
    \/ OnEventStop
    \/ OnEventTriggered

MapSpec == Init /\ [][MapNext]_vars

(* ---- EventMapManager.build_key ---- *)

\* Watch lists given to build_key have at most this many events.
MaxKeyEvents == 2

\* The names and payload keys of the model, in the order of Python's str "<".
StringOrder == <<"a", "b", "c", "k", "x">>

Rank(str) == CHOOSE i \in DOMAIN StringOrder : StringOrder[i] = str

\* sorted(event_dicts, key=lambda x: x['name']): the sort is stable, events of
\* one name keep the order they were given in
RECURSIVE SortedByName(_)
SortedByName(events) ==
    IF events = <<>>
    THEN <<>>
    ELSE LET front == SortedByName(SubSeq(events, 1, Len(events) - 1))
             e == events[Len(events)]
             n == Cardinality({i \in DOMAIN front : Rank(front[i].name) <= Rank(e.name)})
         IN  SubSeq(front, 1, n) \o <<e>> \o SubSeq(front, n + 1, Len(front))

\* ','.join(parts), a text being a sequence of tokens
RECURSIVE Join(_)
Join(parts) ==
    IF parts = <<>>
    THEN <<>>
    ELSE IF Len(parts) = 1
         THEN parts[1]
         ELSE parts[1] \o <<",">> \o Join(Tail(parts))

\* json.dumps(payload, sort_keys=True); None is written null
JsonDumps(payload) ==
    LET Has(k) == k \in DOMAIN payload
        keys == SelectSeq(StringOrder, Has)
        Value(v) == IF v = None THEN "null" ELSE v
    IN  <<"{">> \o Join([i \in DOMAIN keys |-> <<keys[i], ":", Value(payload[keys[i]])>>])
               \o <<"}">>

\* EventMapUtil.encode_string: the SHA-256 digest, taken to be injective
encode_string(value) == <<"sha256">> \o value

\* EventMapManager.build_key(events_to_map)
build_key(events) ==
    LET sorted_events == SortedByName(events)
        names == Join([i \in DOMAIN sorted_events |-> <<sorted_events[i].name>>])
        payload == Join([i \in DOMAIN sorted_events |-> JsonDumps(sorted_events[i].payload)])
    IN  encode_string(names \o payload)

\* The events and the watch lists build_key is given.
KeyEvents ==
    {MapEvent("a", <<>>), MapEvent("a", ("k" :> "v1")), MapEvent("a", ("k" :> "v2")),
     MapEvent("b", <<>>), MapEvent("b", ("x" :> "v1"))}

KeyLists == UNION {[1..n -> KeyEvents] : n \in 1..MaxKeyEvents}

\* a call of build_key; the history keeps the last two
BuildKey(events) ==
    /\ built' = (IF built = <<>> THEN <<>> ELSE <<built[Len(built)]>>)
                    \o <<[events |-> events, key |-> build_key(events)]>>
    /\ UNCHANGED <<event_handlers, event_queue, next_id, threads, posted, raised, held,
                   changed, observed, calls, concvars, idvars, chanvars, lockvars, events_to_map,
                   event_to_post, events_to_watch, on_event, fired, event_maps, maps,
                   posts, returned>>

KeyNext == \E events \in KeyLists : BuildKey(events)

KeySpec == Init /\ [][KeyNext]_vars

(* ---- the map manager ---- *)

\* Events constructed in one behaviour of ManagerSpec.
MaxManagerEvents == 8

\* EventMap objects constructed in one behaviour of ManagerSpec.
MaxMaps == 2

\* EventMapManager.on_event, the callback the manager registers
MANAGER == "manager"

MAPPING_CREATED == "event_map.mapping_created"

MAPPING_REMOVED == "event_map.mapping_removed"

\* the on_event bound method of the i-th EventMap constructed
MapHandler(i) == <<"map1", "map2", "map3">>[i]

\* Python's None where an Event is expected
NullEvent == MapEvent("", <<>>)

\* the key '' and the key None
EmptyKey == <<>>

NullKey == <<None>>

\* EventMapUtil.build_event_mapping_payload: the events without id and time
build_event_mapping_payload(events, e) ==
    [events_to_map |-> events, event_to_post |-> e]

\* The dispatch as a call goes through it: the table, the queue, the id counter
\* and the events the call has posted so far.
Entering == [t |-> event_handlers, q |-> event_queue, id |-> next_id, log |-> <<>>]

\* EventDispatch.post_event(name, payload) made inside a call
Posting(st, name, payload) ==
    LET id == st.id + 1
        hs == PostHandlers(st.t, name, None)
    IN  [t |-> PostTable(st.t, name, None),
         q |-> st.q \o PayloadUnits(id, name, payload, hs),
         id |-> id,
         log |-> Append(st.log, [id |-> id, name |-> name, payload |-> payload])]

\* NotifiableError.__init__(message, error, payload): 'error' is set unless the
\* payload has one, 'message' is set when there is a message, and the event
\* named by the error is posted on the default channel
NotifiableError(st, message, error, payload) ==
    LET with_error == payload @@ ("error" :> error)
        with_message == IF message # ""
                        THEN ("message" :> message) @@ with_error
                        ELSE with_error
    IN  Posting(st, error, with_message)

\* The call returns or raises: what it did to the dispatch becomes visible.
Leaving(st) ==
    /\ st.id <= MaxManagerEvents
    /\ event_handlers' = st.t
    /\ event_queue' = st.q
    /\ next_id' = st.id
    /\ posts' = st.log
    /\ posted' = IF st.log = <<>>
                 THEN posted
                 ELSE NewEvent(st.id, st.log[Len(st.log)].name, <<>>, None)

\* a new EventMap object
NewMap(events, e, key) ==
    [events_to_map |-> events, event_to_post |-> e, events_to_watch |-> WatchOf(events),
     key |-> key, pc |-> "idle"]

\* EventMap.__init__ that registers on_event for the first name only
ConstructingFirst(st, n, events) ==
    LET names == SubSeq(MappedEvents(events), 1, 1)
        r == RegisterLoop(st.t, MapHandler(n), names, 1)
        registered == [st EXCEPT !.t = r.t]
    IN  IF r.any
        THEN Posting(registered, HANDLER_REGISTERED,
                     [events |-> AdminPayloadEvents(names), handler |-> MapHandler(n)])
        ELSE registered

\* EventMap.__init__(event_dispatch, events, e, key) with valid events, as the
\* n-th map: register(self.on_event, mapped_events) and its handler_registered
Constructing(st, n, events) ==
    LET names == MappedEvents(events)
        r == RegisterLoop(st.t, MapHandler(n), names, 1)
        registered == [st EXCEPT !.t = r.t]
    IN  IF r.any
        THEN Posting(registered, HANDLER_REGISTERED,
                     [events |-> AdminPayloadEvents(names), handler |-> MapHandler(n)])
        ELSE registered

\* "not events_to_map or not event_to_post"
Falsy(events, e) == events = <<>> \/ e = NullEvent

\* The watch lists and events to post given to map_events and to EventMap.
ManagerLists ==
    {<<>>, <<NullEvent>>, <<MapEvent("a", <<>>)>>,
     <<MapEvent("a", <<>>), MapEvent("b", <<>>)>>}

ManagerEventsToPost == {NullEvent, MapEvent("c", <<>>)}

\* In ManagerSpec a caller calls when the notifications of the earlier calls
\* have been delivered and no map is inside on_event.
ManagerRoom ==
    /\ Idle
    /\ \A i \in DOMAIN maps : maps[i].pc = "idle"

\* map_events that never finds the key
HasMappingNever(table, key) == FALSE

\* "key in self.__event_maps"
HasMapping(table, key) == key \in DOMAIN table

\* EventMapManager.map_events(events, e, ignore_if_exists)
MapEvents(events, e, ignore_if_exists) ==
    LET key == build_key(events)
        n == Len(maps) + 1
    IN  /\ ManagerRoom
        /\ IF Falsy(events, e)
           THEN /\ Leaving(NotifiableError(Entering, "Invalid events provided for event mapping.",
                                           INVALID_EVENTS,
                                           build_event_mapping_payload(events, e)))
                /\ raised' = "InvalidMappingEventsError"
                /\ returned' = <<>>
                /\ UNCHANGED <<event_maps, maps, held>>
           ELSE IF InList(NullEvent, events)
           THEN \* build_key reads event.dict of None
                /\ Leaving(Entering)
                /\ raised' = "AttributeError"
                /\ returned' = <<>>
                /\ UNCHANGED <<event_maps, maps, held>>
           ELSE IF HasMapping(event_maps, key)
           THEN IF ignore_if_exists
                THEN /\ Leaving(Entering)
                     /\ raised' = ""
                     /\ returned' = key
                     /\ UNCHANGED <<event_maps, maps, held>>
                ELSE /\ Leaving(NotifiableError(Entering,
                                                "Mapping for events provided already exists.",
                                                "duplicate_mapping",
                                                build_event_mapping_payload(events, e)))
                     /\ raised' = "DuplicateMappingError"
                     /\ returned' = <<>>
                     /\ UNCHANGED <<event_maps, maps, held>>
           ELSE /\ n <= MaxMaps
                /\ Leaving(Posting(Constructing(Entering, n, events), MAPPING_CREATED,
                                   build_event_mapping_payload(events, e)))
                /\ maps' = Append(maps, NewMap(events, e, key))
                /\ event_maps' = Put(event_maps, key, n)
                /\ held' = held \cup {<<MapHandler(n), events[i].name>> : i \in DOMAIN events}
                /\ raised' = ""
                /\ returned' = key
        /\ UNCHANGED <<threads, changed, observed, calls, concvars, idvars, chanvars, lockvars, events_to_map,
                       event_to_post, events_to_watch, on_event, fired, built>>

\* EventMap(event_dispatch, events, e, '') constructed by the caller, without
\* the manager
ConstructEventMap(events, e) ==
    LET n == Len(maps) + 1
        AnyEvent == \E i \in DOMAIN events : events[i] # NullEvent
    IN  /\ ManagerRoom
        /\ ~(AnyEvent /\ InList(NullEvent, events))
        /\ IF Falsy(events, e) \/ ~AnyEvent
           THEN /\ Leaving(NotifiableError(Entering, "Invalid events provided for event mapping.",
                                           INVALID_EVENTS,
                                           build_event_mapping_payload(events, e)))
                /\ raised' = "InvalidMappingEventsError"
                /\ UNCHANGED <<maps, held>>
           ELSE /\ n <= MaxMaps
                /\ Leaving(Constructing(Entering, n, events))
                /\ maps' = Append(maps, NewMap(events, e, EmptyKey))
                /\ held' = held \cup {<<MapHandler(n), events[i].name>> : i \in DOMAIN events}
                /\ raised' = ""
        /\ returned' = <<>>
        /\ UNCHANGED <<threads, changed, observed, calls, concvars, idvars, chanvars, lockvars, events_to_map,
                       event_to_post, events_to_watch, on_event, fired, event_maps, built>>

\* remove_event_map_by_key that leaves the table alone
remove_event_map_by_key_kept(st, table, key) ==
    IF key \in DOMAIN table
    THEN LET m == maps[table[key]]
         IN  [st |-> Posting(st, MAPPING_REMOVED,
                             build_event_mapping_payload(m.events_to_map, m.event_to_post)),
              table |-> table, raised |-> ""]
    ELSE [st |-> NotifiableError(st, "Mapping not found for key", "mapping_not_found",
                                 ("key" :> key)),
          table |-> table, raised |-> "MappingNotFoundError"]

\* remove_event_map_by_key that returns when the key is missing
remove_event_map_by_key_quiet(st, table, key) ==
    IF key \in DOMAIN table
    THEN LET m == maps[table[key]]
         IN  [st |-> Posting(st, MAPPING_REMOVED,
                             build_event_mapping_payload(m.events_to_map, m.event_to_post)),
              table |-> DictDel(table, key), raised |-> ""]
    ELSE [st |-> st, table |-> table, raised |-> ""]

\* EventMapManager.remove_event_map_by_key(key): pop and post mapping_removed,
\* or MappingNotFoundError
remove_event_map_by_key(st, table, key) ==
    IF key \in DOMAIN table
    THEN LET m == maps[table[key]]
         IN  [st |-> Posting(st, MAPPING_REMOVED,
                             build_event_mapping_payload(m.events_to_map, m.event_to_post)),
              table |-> DictDel(table, key), raised |-> ""]
    ELSE [st |-> NotifiableError(st, "Mapping not found for key", "mapping_not_found",
                                 ("key" :> key)),
          table |-> table, raised |-> "MappingNotFoundError"]

\* The keys a caller gives to remove_event_map_by_key.
RemoveKeys == {EmptyKey, NullKey} \cup {build_key(l) : l \in ManagerLists \ {<<>>, <<NullEvent>>}}

\* a caller's remove_event_map_by_key(key)
RemoveEventMapByKey(key) ==
    LET r == remove_event_map_by_key(Entering, event_maps, key)
    IN  /\ ManagerRoom
        /\ Leaving(r.st)
        /\ event_maps' = r.table
        /\ raised' = r.raised
        /\ returned' = <<>>
        /\ UNCHANGED <<threads, held, changed, observed, calls, concvars, idvars, chanvars, lockvars,
                       events_to_map, event_to_post, events_to_watch, on_event, fired,
                       maps, built>>

\* event.payload.get('key')
KeyOf(payload) == IF "key" \in DOMAIN payload THEN payload["key"] ELSE NullKey

\* EventMapManager.on_event that returns at once
ManagerOnEventDeaf(u) ==
    /\ u \in threads
    /\ u.handler = MANAGER
    /\ threads' = threads \ {u}
    /\ Leaving(Entering)
    /\ raised' = ""
    /\ returned' = <<>>
    /\ UNCHANGED <<held, changed, observed, calls, concvars, idvars, chanvars, lockvars, events_to_map,
                   event_to_post, events_to_watch, on_event, fired, event_maps, maps, built>>

\* A started thread runs EventMapManager.on_event(event): for mapping_triggered
\* it calls remove_event_map_by_key and swallows MappingNotFoundError
ManagerOnEvent(u) ==
    LET r == remove_event_map_by_key(Entering, event_maps, KeyOf(u.payload))
    IN  /\ u \in threads
        /\ u.handler = MANAGER
        /\ threads' = threads \ {u}
        /\ IF u.name # MAPPING_TRIGGERED
           THEN Leaving(Entering) /\ UNCHANGED event_maps
           ELSE Leaving(r.st) /\ event_maps' = r.table
        /\ raised' = ""
        /\ returned' = <<>>
        /\ UNCHANGED <<held, changed, observed, calls, concvars, idvars, chanvars, lockvars, events_to_map,
                       event_to_post, events_to_watch, on_event, fired, maps, built>>

\* a caller's post_event(name, {})
ManagerCallerPosts(name) ==
    /\ ManagerRoom
    /\ Leaving(Posting(Entering, name, <<>>))
    /\ UNCHANGED <<threads, raised, held, changed, observed, calls, concvars, idvars, chanvars, lockvars,
                   events_to_map, event_to_post, events_to_watch, on_event, fired,
                   event_maps, maps, returned, built>>

\* the map whose on_event is h
MapOf(h) == CHOOSE i \in DOMAIN maps : MapHandler(i) = h

\* A started thread runs on_event of a map the model keeps in maps (OnEvent,
\* for that map).
MapOnEvent(u) ==
    /\ u \in threads
    /\ \E i \in DOMAIN maps : u.handler = MapHandler(i)
    /\ LET i == MapOf(u.handler)
           m == maps[i]
       IN  /\ m.pc = "idle"
           /\ IF u.name \in DOMAIN m.events_to_watch
                 /\ PayloadMatches(m.events_to_watch[u.name], u.payload)
              THEN maps' = [maps EXCEPT
                              ![i].events_to_watch = DictDel(m.events_to_watch, u.name),
                              ![i].pc = IF DOMAIN m.events_to_watch = {u.name}
                                        THEN "post" ELSE "idle"]
              ELSE UNCHANGED maps
    /\ threads' = threads \ {u}
    /\ Leaving(Entering)
    /\ UNCHANGED <<raised, held, changed, observed, calls, concvars, idvars, chanvars, lockvars, events_to_map,
                   event_to_post, events_to_watch, on_event, fired, event_maps, returned,
                   built>>

\* OnEventPost for the i-th map
MapOnEventPost(i) ==
    /\ i \in DOMAIN maps
    /\ maps[i].pc = "post"
    /\ Leaving(Posting(Entering, maps[i].event_to_post.name, maps[i].event_to_post.payload))
    /\ maps' = [maps EXCEPT ![i].pc = "stop"]
    /\ UNCHANGED <<threads, raised, held, changed, observed, calls, concvars, idvars, chanvars, lockvars,
                   events_to_map, event_to_post, events_to_watch, on_event, fired,
                   event_maps, returned, built>>

\* OnEventStop for the i-th map
MapOnEventStop(i) ==
    /\ i \in DOMAIN maps
    /\ maps[i].pc = "stop"
    /\ LET names == MappedEvents(maps[i].events_to_map)
           r == UnregisterLoop(event_handlers, MapHandler(i), names, 1)
           unregistered == [Entering EXCEPT !.t = r.t]
       IN  /\ held' = held \ {<<MapHandler(i), names[j]>> : j \in DOMAIN names}
           /\ IF r.any
              THEN Leaving(Posting(unregistered, HANDLER_UNREGISTERED,
                                   [events |-> AdminPayloadEvents(names),
                                    handler |-> MapHandler(i)]))
              ELSE Leaving(unregistered)
    /\ maps' = [maps EXCEPT ![i].pc = "triggered"]
    /\ UNCHANGED <<threads, raised, changed, observed, calls, concvars, idvars, chanvars, lockvars,
                   events_to_map, event_to_post, events_to_watch, on_event, fired,
                   event_maps, returned, built>>

\* OnEventTriggered for the i-th map
MapOnEventTriggered(i) ==
    /\ i \in DOMAIN maps
    /\ maps[i].pc = "triggered"
    /\ Leaving(Posting(Entering, MAPPING_TRIGGERED, ("key" :> maps[i].key)))
    /\ maps' = [maps EXCEPT ![i].pc = "idle"]
    /\ UNCHANGED <<threads, raised, held, changed, observed, calls, concvars, idvars, chanvars, lockvars,
                   events_to_map, event_to_post, events_to_watch, on_event, fired,
                   event_maps, returned, built>>

\* EventMapManager(event_dispatch) has registered its on_event for
\* mapping_triggered.
ManagerTable == (MAPPING_TRIGGERED :> <<MANAGER>>)

\* The same on a channel where h1 is registered for duplicate_mapping and h2
\* for all events.
SharedTable ==
    ManagerTable @@ ("duplicate_mapping" :> <<"h1">>) @@ (ALL_EVENTS :> <<"h2">>)

\* The state after EventMapManager(event_dispatch), the table being t.
ManagerStart(t) ==
    /\ event_handlers = t
    /\ held = {<<h, k>> \in (Handlers \cup {MANAGER}) \X DOMAIN event_handlers :
                  InList(h, event_handlers[k])}
    /\ event_queue = <<>>
    /\ next_id = 0
    /\ threads = {}
    /\ posted = NoEvent
    /\ raised = ""
    /\ changed = {}
    /\ observed = NoObserved
    /\ calls = [h \in Handlers |-> 0]
    /\ lock = None
    /\ calling = [c \in Callers |-> Calling(NoCall, "done", <<>>)]
    /\ before = <<>>
    /\ idlock = None
    /\ making = [m \in Makers |-> Making("idle", 0, 0)]
    /\ issued = {}
    /\ events_to_map = <<>>
    /\ event_to_post = MapEvent("", <<>>)
    /\ events_to_watch = <<>>
    /\ on_event = NotInOnEvent
    /\ fired = NotFired
    /\ event_maps = <<>>
    /\ maps = <<>>
    /\ posts = <<>>
    /\ returned = <<>>
    /\ built = <<>>
    /\ event_dispatchers = {""}
    /\ event_log = <<>>
    /\ log_event = FALSE
    /\ log_event_if_no_handlers = FALSE
    /\ event_mapper = None
    /\ logged = <<>>
    \* synchronized(self) of the default channel and of the channel "x",
    \* @synchronized of the EventMap's on_event and of Event.generate_id:
    \* nobody holds them, no thread has made its call
    /\ locks = [l \in {"", "x", "map", "id"} |-> [owner |-> None, depth |-> 0]]
    /\ running = [th \in LockThreads |-> [pc |-> "idle", ops |-> <<>>]]

ManagerInit == ManagerStart(ManagerTable)

ManagerNext ==
    \/ \E events \in ManagerLists, e \in ManagerEventsToPost, ignore_if_exists \in BOOLEAN :
          MapEvents(events, e, ignore_if_exists)
    \/ \E events \in ManagerLists, e \in ManagerEventsToPost : ConstructEventMap(events, e)
    \/ \E key \in RemoveKeys : RemoveEventMapByKey(key)
    \/ \E name \in {"a", "b"} : ManagerCallerPosts(name)
    \/ MonitorEventQueue
    \/ \E u \in threads : ManagerOnEvent(u)
    \/ \E u \in threads : MapOnEvent(u)
    \/ \E i \in 1..MaxMaps : MapOnEventPost(i)
    \/ \E i \in 1..MaxMaps : MapOnEventStop(i)
    \/ \E i \in 1..MaxMaps : MapOnEventTriggered(i)

ManagerSpec == ManagerInit /\ [][ManagerNext]_vars

\* ManagerSpec with the worker and the manager's callback scheduled fairly. Each
\* map posts mapping_triggered once at most, so the manager's callback posts
\* MaxMaps events at most; the other steps leave it that many of the
\* MaxManagerEvents events.
ManagerFairNext ==
    \/ \E u \in threads : ManagerOnEvent(u)
    \/ ManagerNext /\ next_id' <= MaxManagerEvents - MaxMaps

ManagerFairSpec ==
    /\ ManagerInit
    /\ [][ManagerFairNext]_vars
    /\ WF_vars(MonitorEventQueue)
    /\ WF_vars(\E u \in threads : ManagerOnEvent(u))

\* The manager's calls on the channel that h1 and h2 are registered on.
SharedInit == ManagerStart(SharedTable)

SharedNext ==
    \/ \E events \in ManagerLists, e \in ManagerEventsToPost, ignore_if_exists \in BOOLEAN :
          MapEvents(events, e, ignore_if_exists)
    \/ \E events \in ManagerLists, e \in ManagerEventsToPost : ConstructEventMap(events, e)
    \/ \E key \in RemoveKeys : RemoveEventMapByKey(key)
    \/ MonitorEventQueue
    \/ \E u \in threads : RunThread(u)

SharedSpec == SharedInit /\ [][SharedNext]_vars

(* ---- map_events called by two threads, and while maps fire ---- *)

\* The watch list and the event to post of the racing calls.
RaceEvents == <<MapEvent("a", <<>>)>>

\* a caller's map_events(RaceEvents, Event('c'), ignore_if_exists)
RaceCall(ignore_if_exists) ==
    [op |-> "map_events", handler |-> None, events |-> <<"a">>,
     name |-> IF ignore_if_exists THEN "ignore_if_exists" ELSE ""]

\* A thread enters map_events: the emptiness check, build_key and
\* "key in self.__event_maps" (615-626). Nothing is locked: the thread that
\* does not find the key goes on to construct the map. 'chosen' records whether
\* the other thread was between its own check and its store at that time.
MapEventsEnter(c, ignore_if_exists) ==
    LET key == build_key(RaceEvents)
        e == MapEvent("c", <<>>)
        concurrent == IF \E d \in Callers \ {c} : calling[d].pc = "store"
                      THEN <<"concurrent">> ELSE <<>>
    IN  /\ calling[c].pc = "done"
        /\ calling[c].call = NoCall
        /\ IF HasMapping(event_maps, key)
           THEN IF ignore_if_exists
                THEN /\ Leaving(Entering)
                     /\ calling' = [calling EXCEPT ![c] =
                                       Calling(RaceCall(ignore_if_exists), "returned", concurrent)]
                     /\ raised' = ""
                     /\ returned' = key
                ELSE /\ Leaving(NotifiableError(Entering,
                                                "Mapping for events provided already exists.",
                                                "duplicate_mapping",
                                                build_event_mapping_payload(RaceEvents, e)))
                     /\ calling' = [calling EXCEPT ![c] =
                                       Calling(RaceCall(ignore_if_exists),
                                               "DuplicateMappingError", concurrent)]
                     /\ raised' = "DuplicateMappingError"
                     /\ returned' = <<>>
           ELSE /\ Leaving(Entering)
                /\ calling' = [calling EXCEPT ![c] =
                                  Calling(RaceCall(ignore_if_exists), "store", concurrent)]
                /\ UNCHANGED <<raised, returned>>
        /\ UNCHANGED <<threads, held, changed, observed, calls, lock, before, idvars, chanvars, lockvars,
                       events_to_map, event_to_post, events_to_watch, on_event, fired,
                       event_maps, maps, built>>

\* The thread constructs the EventMap, stores it under the key, posts
\* mapping_created and returns the key (628-634).
MapEventsStore(c) ==
    LET key == build_key(RaceEvents)
        e == MapEvent("c", <<>>)
        n == Len(maps) + 1
    IN  /\ calling[c].pc = "store"
        /\ n <= MaxMaps
        /\ Leaving(Posting(Constructing(Entering, n, RaceEvents), MAPPING_CREATED,
                           build_event_mapping_payload(RaceEvents, e)))
        /\ maps' = Append(maps, NewMap(RaceEvents, e, key))
        /\ event_maps' = Put(event_maps, key, n)
        /\ held' = held \cup {<<MapHandler(n), "a">>}
        /\ calling' = [calling EXCEPT ![c].pc = "returned"]
        /\ raised' = ""
        /\ returned' = key
        /\ UNCHANGED <<threads, changed, observed, calls, lock, before, idvars, chanvars, lockvars,
                       events_to_map, event_to_post, events_to_watch, on_event, fired, built>>

RaceNext ==
    \/ \E c \in Callers, ignore_if_exists \in BOOLEAN : MapEventsEnter(c, ignore_if_exists)
    \/ \E c \in Callers : MapEventsStore(c)
    \/ ManagerCallerPosts("a")
    \/ MonitorEventQueue
    \/ \E u \in threads : ManagerOnEvent(u)
    \/ \E u \in threads : MapOnEvent(u)
    \/ \E i \in 1..MaxMaps : MapOnEventPost(i)
    \/ \E i \in 1..MaxMaps : MapOnEventStop(i)
    \/ \E i \in 1..MaxMaps : MapOnEventTriggered(i)

RaceSpec == ManagerInit /\ [][RaceNext]_vars

(* ---- replacing the event mapper ---- *)

\* EventDispatch.set_event_map_manager(event_mapper), the new mapper being the
\* EventMapManager of ManagerInit or an EventMapper() that registers nothing.
\* The current mapper's unregister_from_events comes first: for the
\* EventMapManager it is unregister(self.on_event, [EventMapEvent.MAPPING_TRIGGERED]),
\* whose name is the Enum member, a key different from every string of the
\* table; for an EventMapper it does nothing.
SetEventMapManager(mapper) ==
    LET member == "EventMapEvent.MAPPING_TRIGGERED"
        r == UnregisterLoop(event_handlers, MANAGER, <<member>>, 1)
        unregistered == [Entering EXCEPT !.t = r.t]
    IN  /\ ManagerRoom
        /\ IF event_mapper = MANAGER
           THEN IF r.any
                THEN Leaving(Posting(unregistered, HANDLER_UNREGISTERED,
                                     [events |-> <<member>>, handler |-> MANAGER]))
                ELSE Leaving(unregistered)
           ELSE Leaving(Entering)
        /\ event_mapper' = mapper
        /\ raised' = ""
        /\ UNCHANGED <<threads, held, changed, observed, calls, concvars, idvars,
                       events_to_map, event_to_post, events_to_watch, on_event, fired,
                       event_maps, maps, returned, built, event_dispatchers, event_log,
                       log_event, log_event_if_no_handlers, logged, lockvars>>

MapperNext ==
    \/ \E mapper \in {MANAGER, "mapper"} : SetEventMapManager(mapper)
    \/ \E events \in ManagerLists \ {<<>>, <<NullEvent>>} :
          MapEvents(events, MapEvent("c", <<>>), TRUE)
    \/ \E name \in {"a", MAPPING_TRIGGERED} : ManagerCallerPosts(name)
    \/ MonitorEventQueue
    \/ \E u \in threads : ManagerOnEvent(u)
    \/ \E u \in threads : MapOnEvent(u)
    \/ \E i \in 1..MaxMaps : MapOnEventPost(i)
    \/ \E i \in 1..MaxMaps : MapOnEventStop(i)
    \/ \E i \in 1..MaxMaps : MapOnEventTriggered(i)

MapperSpec == ManagerInit /\ [][MapperNext]_vars

(* ---- the locks of concurrent calls ---- *)

\* A lock that is not re-entrant: t may take l only when nobody holds it.
CanAcquireOnce(l, t) == locks[l].owner = None

\* A lock of wrapt's synchronized is re-entrant: the thread t may take the
\* lock l when nobody holds it or when t itself does.
CanAcquire(l, t) == locks[l].owner \in {None, t}

\* The lock operations, in order, of one call on the channel c.  The event
\* map and its manager belong to the channel "x"; a notifiable error posts
\* on the default channel "" from wherever it is constructed.
Program(op, c) ==
    LET Acquire(l) == <<"acquire", l>>
        Release(l) == <<"release", l>>
        \* EventDispatch.post_event: Event() and so generate_id inside the
        \* channel's lock
        Post(ch) == <<Acquire(ch), Acquire("id"), Release("id"), Release(ch)>>
        \* register and unregister: the loop inside the lock
        Mutate(ch) == <<Acquire(ch), Release(ch)>>
        \* NotifiableError.__init__: post_event on the default channel
        ErrorPost == Post("")
    IN  CASE op = "post" -> Post(c)
          \* Event('') raises InvalidEventError inside the channel's lock
          [] op = "post_invalid" -> <<Acquire(c)>> \o ErrorPost \o <<Release(c)>>
          \* a net change: the admin event after the lock is released
          [] op \in {"register", "unregister"} -> Mutate(c) \o Post(c)
          [] op = "register_unchanged" -> Mutate(c)
          \* EventMap.on_event, event not watched or events left: returns
          [] op = "on_event_ignored" -> <<Acquire("map"), Release("map")>>
          \* EventMap.on_event, last event: the composite, stop(), all
          \* inside the map's lock
          [] op = "on_event_fired" ->
                <<Acquire("map")>> \o Post("x") \o Mutate("x") \o Post("x") \o Post("x")
                    \o <<Release("map")>>
          \* map_events: EventMap() registers, then MAPPING_CREATED
          [] op = "map_events" -> Mutate("x") \o Post("x") \o Post("x")
          \* map_events: InvalidMappingEventsError or DuplicateMappingError
          [] op = "map_events_error" -> ErrorPost
          \* EventMapManager.on_event: MAPPING_REMOVED
          [] op = "manager_on_event" -> Post("x")
          \* EventMapManager.on_event: MappingNotFoundError
          [] op = "manager_on_event_error" -> ErrorPost

\* The thread t makes a call.
StartCall(t, op, c) ==
    /\ running[t].pc = "idle"
    /\ running' = [running EXCEPT ![t] = [pc |-> "running", ops |-> Program(op, c)]]
    /\ UNCHANGED <<next_id, dispatchvars, concvars, idvars, chanvars, mapvars, locks>>

\* The thread t does the next lock operation of its call; it returns after
\* the last one.  Taking a lock another thread holds blocks.
CallStep(t) ==
    /\ running[t].pc = "running"
    /\ LET o == Head(running[t].ops)
           l == o[2]
           rest == Tail(running[t].ops)
       IN  /\ IF o[1] = "acquire"
              THEN /\ CanAcquire(l, t)
                   /\ locks' = [locks EXCEPT ![l] = [owner |-> t, depth |-> @.depth + 1]]
              ELSE locks' = [locks EXCEPT ![l] =
                                IF @.depth = 1 THEN [owner |-> None, depth |-> 0]
                                ELSE [owner |-> t, depth |-> @.depth - 1]]
           /\ running' = [running EXCEPT ![t] =
                             [pc |-> IF rest = <<>> THEN "returned" ELSE "running",
                              ops |-> rest]]
    /\ UNCHANGED <<next_id, dispatchvars, concvars, idvars, chanvars, mapvars>>

LockNext ==
    \/ \E t \in LockThreads, c \in {"", "x"},
          op \in {"post", "post_invalid", "register", "unregister", "register_unchanged"} :
          StartCall(t, op, c)
    \/ \E t \in LockThreads,
          op \in {"on_event_ignored", "on_event_fired", "map_events", "map_events_error",
                  "manager_on_event", "manager_on_event_error"} :
          StartCall(t, op, "x")
    \/ \E t \in LockThreads : CallStep(t)

\* A thread inside a call keeps being scheduled; nothing makes a thread
\* start a call.
LockSpec == Init /\ [][LockNext]_vars /\ \A t \in LockThreads : WF_vars(CallStep(t))

(* ---- notifiable errors ---- *)

\* The arguments a NotifiableError is constructed with.
ErrorMessages == {"", "test error message"}

ErrorKinds == {"error1", "error2"}

ErrorPayloads ==
    {<<>>, ("key" :> "value"), ("key" :> "value") @@ ("error" :> "some_other_error")}

\* the table of a channel where h1 is registered for error1 and h2 for all events
ErrorTable == ("error1" :> <<"h1">>) @@ (ALL_EVENTS :> <<"h2">>)

\* raise NotifiableError(message, error, payload, exception). With an
\* exception, payload['stacktrace'] is built by traceback.format_exception(
\* etype=...), which returns the text on Python before 3.10 and raises
\* TypeError (no such keyword) from 3.10 on, before anything is posted.
RaiseNotifiable(message, error, payload, exception) ==
    /\ ManagerRoom
    /\ IF ~exception
       THEN /\ Leaving(NotifiableError(Entering, message, error, payload))
            /\ raised' = "NotifiableError"
       ELSE \/ /\ Leaving(NotifiableError(Entering, message, error,
                                          ("stacktrace" :> "formatted") @@ payload))
               /\ raised' = "NotifiableError"
            \/ /\ Leaving(Entering)
               /\ raised' = "TypeError"
    /\ UNCHANGED <<threads, held, changed, observed, calls, concvars, idvars, chanvars, lockvars,
                   events_to_map, event_to_post, events_to_watch, on_event, fired,
                   event_maps, maps, returned, built>>

ErrorInit == ManagerStart(ErrorTable)

ErrorNext ==
    \/ \E message \in ErrorMessages, error \in ErrorKinds, payload \in ErrorPayloads,
          exception \in BOOLEAN : RaiseNotifiable(message, error, payload, exception)
    \/ MonitorEventQueue
    \/ \E u \in threads : RunThread(u)

ErrorSpec == ErrorInit /\ [][ErrorNext]_vars

(* ---- the dispatch manager and the diagnostic log ---- *)

\* Events constructed in one behaviour of ChannelSpec.
MaxLogEvents == 7

\* EventDispatch.__EVENT_LOG_SIZE
EVENT_LOG_SIZE == 5

\* deque.append without maxlen
LogAppendUnbounded(log, event) == Append(log, event)

\* deque(maxlen=EVENT_LOG_SIZE).append(event): a full deque drops its oldest
LogAppend(log, event) ==
    IF Len(log) >= EVENT_LOG_SIZE THEN Append(Tail(log), event) ELSE Append(log, event)

\* EventDispatchManager.add_event_dispatch(channel). A channel added under the
\* name '' is a new EventDispatch: an empty table, an empty log, logging off.
AddEventDispatch(channel) ==
    /\ Idle
    /\ channel \notin event_dispatchers
    /\ event_dispatchers' = event_dispatchers \cup {channel}
    /\ IF channel = ""
       THEN /\ event_handlers' = <<>>
            /\ held' = {}
            /\ event_log' = <<>>
            /\ logged' = <<>>
            /\ log_event' = FALSE
            /\ log_event_if_no_handlers' = FALSE
       ELSE UNCHANGED <<event_handlers, held, event_log, logged, log_event,
                        log_event_if_no_handlers>>
    /\ raised' = ""
    /\ UNCHANGED <<event_queue, next_id, threads, posted, changed, observed, calls,
                   concvars, idvars, mapvars, event_mapper, lockvars>>

\* EventDispatchManager.remove_event_dispatch(channel)
RemoveEventDispatch(channel) ==
    /\ Idle
    /\ channel \in event_dispatchers
    /\ event_dispatchers' = event_dispatchers \ {channel}
    /\ raised' = ""
    /\ UNCHANGED <<event_handlers, event_queue, next_id, threads, posted, held, changed,
                   observed, calls, concvars, idvars, mapvars, event_log, log_event,
                   log_event_if_no_handlers, event_mapper, logged, lockvars>>

\* toggle_event_logging(is_log) on the default channel
ToggleEventLogging(is_log) ==
    /\ "" \in event_dispatchers
    /\ log_event # is_log
    /\ log_event' = is_log
    /\ UNCHANGED <<event_handlers, event_queue, next_id, threads, posted, raised, held,
                   changed, observed, calls, concvars, idvars, mapvars, event_dispatchers,
                   event_log, log_event_if_no_handlers, event_mapper, logged, lockvars>>

\* the setter of log_event_if_no_handlers on the default channel
SetLogEventIfNoHandlers(value) ==
    /\ "" \in event_dispatchers
    /\ log_event_if_no_handlers # value
    /\ log_event_if_no_handlers' = value
    /\ UNCHANGED <<event_handlers, event_queue, next_id, threads, posted, raised, held,
                   changed, observed, calls, concvars, idvars, mapvars, event_dispatchers,
                   event_log, log_event, event_mapper, logged, lockvars>>

\* The module's post_event(name, {}, exclude_handler):
\* EventDispatchManager().default_dispatch is __event_dispatchers[''], a
\* KeyError when the manager does not hold ''; else EventDispatch.post_event
\* with its append to the log.
DefaultPostEvent(name, excl) ==
    LET id == next_id + 1
        hs == PostHandlers(event_handlers, name, excl)
        event == NewEvent(id, name, <<>>, None)
    IN  /\ Idle
        /\ next_id < MaxLogEvents
        /\ IF "" \notin event_dispatchers
           THEN /\ raised' = "KeyError"
                /\ UNCHANGED <<event_handlers, event_queue, next_id, posted, event_log,
                               logged>>
           ELSE /\ raised' = ""
                /\ next_id' = id
                /\ event_handlers' = PostTable(event_handlers, name, excl)
                /\ event_queue' = event_queue \o Units(id, name, hs)
                /\ posted' = event
                /\ IF log_event /\ (hs # <<>> \/ log_event_if_no_handlers)
                   THEN /\ event_log' = LogAppend(event_log, event)
                        /\ logged' = Append(logged, event)
                   ELSE UNCHANGED <<event_log, logged>>
        /\ UNCHANGED <<threads, held, changed, observed, calls, concvars, idvars, mapvars,
                       event_dispatchers, log_event, log_event_if_no_handlers,
                       event_mapper, lockvars>>

\* The manager holds the default channel, on which h1 is registered for "a"
\* and h2 for all events.
ChannelInit == ManagerStart(("a" :> <<"h1">>) @@ (ALL_EVENTS :> <<"h2">>))

ChannelNext ==
    \/ \E channel \in {"", "x"} : AddEventDispatch(channel)
    \/ \E channel \in {"", "x"} : RemoveEventDispatch(channel)
    \/ \E is_log \in BOOLEAN : ToggleEventLogging(is_log)
    \/ \E value \in BOOLEAN : SetLogEventIfNoHandlers(value)
    \/ \E name \in {"a", "b"}, excl \in {"h2", None} : DefaultPostEvent(name, excl)
    \/ MonitorEventQueue
    \/ \E u \in threads : RunThread(u)

ChannelSpec == ChannelInit /\ [][ChannelNext]_vars

(* ======================= the claims ======================= *)

\* the notification threads a step appends to the queue
NewUnits == SubSeq(event_queue', Len(event_queue) + 1, Len(event_queue'))

\* how many of them notify callback h
NewUnitsFor(h) == Cardinality({i \in DOMAIN NewUnits : NewUnits[i].handler = h})

\* a step that only appends to the queue
QueueExtended ==
    /\ Len(event_queue') >= Len(event_queue)
    /\ SubSeq(event_queue', 1, Len(event_queue)) = event_queue

\* C1: a post of a name enqueues exactly one notification for a callback that
\* is registered both for that name and for all events (and is not the
\* excluded callback).
C1_NoDoubleDelivery ==
    [][\A name \in EventNames, h \in Handlers :
       \A excl \in (Handlers \cup {None}) \ {h} :
          (/\ PostEvent(name, excl, FALSE)
           /\ InList(h, Get(event_handlers, name))
           /\ InList(h, Get(event_handlers, ALL_EVENTS)))
          => QueueExtended /\ NewUnitsFor(h) = 1]_vars

\* C1's case: "a" was just posted, and the queue holds its one notification for
\* a callback registered for "a" and for all events.
C1_Witness ==
    \E h \in Handlers :
        /\ posted.name = "a" /\ posted.id = next_id
        /\ <<h, "a">> \in held /\ <<h, ALL_EVENTS>> \in held
        /\ InList(h, Get(event_handlers, "a"))
        /\ InList(h, Get(event_handlers, ALL_EVENTS))
        /\ Cardinality({i \in DOMAIN event_queue :
               event_queue[i].id = posted.id /\ event_queue[i].handler = h}) = 1

\* C2: every callback that is registered for the name or for all events when an
\* event is posted (the excluded callback aside) is eventually invoked with
\* that event, and never more than once.
C2_EventuallyInvokedOnce ==
    \A h \in Handlers :
        /\ (h \in observed.registered) ~> (calls[h] = 1)
        /\ [](h \in observed.registered => calls[h] <= 1)

\* C2's case: the observed event was posted while both callbacks were
\* registered, and each of them has been invoked with it once.
C2_Witness ==
    /\ observed.id > 0
    /\ observed.registered = Handlers
    /\ \A h \in Handlers : calls[h] = 1

\* C3: a post enqueues notifications only for callbacks that hold a
\* registration, made by register and not removed by unregister since, for the
\* posted name or for all events.
C3_OnlyRegisteredNotified ==
    [][\A name \in Keys, excl \in Handlers \cup {None} :
          PostEvent(name, excl, FALSE) =>
              \A i \in DOMAIN NewUnits :
                  \/ <<NewUnits[i].handler, name>> \in held
                  \/ <<NewUnits[i].handler, ALL_EVENTS>> \in held]_vars

\* C4: a post with exclude_handler = c enqueues no notification for c, and one
\* for every other callback registered for the name or for all events.
C4_ExcludedNotNotified ==
    [][\A name \in EventNames, c \in Handlers :
          PostEvent(name, c, FALSE) =>
              /\ NewUnitsFor(c) = 0
              /\ \A h \in Registered(event_handlers, name) \ {c} : NewUnitsFor(h) = 1]_vars

C6_NoDuplicateCallbacks ==
    \A k \in DOMAIN event_handlers :
        \A i, j \in DOMAIN event_handlers[k] :
            i # j => event_handlers[k][i] # event_handlers[k][j]

\* C6's case: both callbacks are registered for "a" and for all events, so "a"
\* and the sentinel each map to a list of two.
C6_Witness ==
    /\ \A h \in Handlers : <<h, "a">> \in held /\ <<h, ALL_EVENTS>> \in held
    /\ Len(Get(event_handlers, "a")) = 2
    /\ Len(Get(event_handlers, ALL_EVENTS)) = 2

\* the names of a register call that the callback is not yet listed under
NamesToAdd(h, evs) == {evs[i] : i \in {j \in DOMAIN evs : ~InList(h, Get(event_handlers, evs[j]))}}

\* C8: a register call constructs exactly one event, handler_registered, when
\* it adds at least one (callback, name) pair, and constructs none and leaves
\* the table and the queue alone when every pair is already there.
C8_OneRegisteredEvent ==
    [][\A h \in Handlers, events \in EventLists :
          (Register(h, events) /\ validate_events(events)) =>
              IF NamesToAdd(h, EffectiveEvents(events)) # {}
              THEN /\ next_id' = next_id + 1
                   /\ posted'.id = next_id'
                   /\ posted'.name = HANDLER_REGISTERED
              ELSE /\ next_id' = next_id
                   /\ posted' = posted
                   /\ event_handlers' = event_handlers
                   /\ event_queue' = event_queue]_vars

\* C8's case: the last event is the one handler_registered event of a register
\* call that added two names for a callback.
C8_Witness ==
    /\ posted.name = HANDLER_REGISTERED /\ posted.id = next_id
    /\ Len(posted.events) = 2
    /\ \A i \in DOMAIN posted.events :
           /\ <<posted.handler, posted.events[i]>> \in held
           /\ InList(posted.handler, Get(event_handlers, posted.events[i]))
    /\ next_id = 1

\* C9: the payload of handler_registered lists exactly the names the
\* call added.
C9_PayloadIsNamesAdded ==
    [][\A h \in Handlers, events \in EventLists :
          (/\ Register(h, events) /\ validate_events(events)
           /\ NamesToAdd(h, EffectiveEvents(events)) # {})
          => Members(posted'.events) = NamesToAdd(h, EffectiveEvents(events)) \ {ALL_EVENTS}]_vars

\* C9, with the payload as the code builds it: the payload of
\* handler_registered is the list of names the call was given (empty when the
\* call registers for all events), names already held included.
C9_PayloadIsNamesRequested ==
    [][\A h \in Handlers, events \in EventLists :
          (/\ Register(h, events) /\ validate_events(events)
           /\ NamesToAdd(h, EffectiveEvents(events)) # {})
          => /\ posted'.id = next_id + 1
             /\ posted'.name = HANDLER_REGISTERED
             /\ posted'.handler = h
             /\ posted'.events = events]_vars

\* C9's case: the last event is a handler_registered event that lists a name
\* the callback held before the call next to one the call added.
C9_Witness ==
    /\ posted.name = HANDLER_REGISTERED /\ posted.id = next_id
    /\ posted.events = <<"a", HANDLER_UNREGISTERED>>
    /\ changed = {HANDLER_UNREGISTERED}
    /\ <<posted.handler, "a">> \in held

\* the table an unregister call should leave: h dropped from the lists of the
\* names given, everything else as it was
TableWithout(t, h, evs) ==
    [k \in DOMAIN t |->
        IF k \in Members(evs) /\ InList(h, t[k]) THEN ListRemove(t[k], h) ELSE t[k]]

\* C10: an unregister call removes exactly the (callback, name) pairs that
\* exist and leaves every other registration alone, posts one
\* handler_unregistered event iff it removed a pair, and raises nothing.
C10_UnregisterFrame ==
    [][\A h \in Handlers, events \in EventLists :
          (Unregister(h, events) /\ validate_events(events)) =>
              LET evs == EffectiveEvents(events)
                  removed == \E i \in DOMAIN evs : InList(h, Get(event_handlers, evs[i]))
              IN  /\ event_handlers' = TableWithout(event_handlers, h, evs)
                  /\ raised' = ""
                  /\ IF removed
                     THEN /\ next_id' = next_id + 1
                          /\ posted'.name = HANDLER_UNREGISTERED
                     ELSE /\ next_id' = next_id
                          /\ posted' = posted
                          /\ event_queue' = event_queue]_vars

\* C7: when concurrent register / unregister / post_event calls have returned,
\* the table is the table that making the calls one after the other, in some
\* order, leaves, and every post_event call notified the list it notifies in
\* that order.
C7_SomeSequentialOrder ==
    AllDone =>
        \E o \in Orders :
            LET first == calling[o[1]].call
                second == calling[o[2]].call
                mid == CallTable(before, first)
            IN  /\ event_handlers = CallTable(mid, second)
                /\ first.op = "post" => calling[o[1]].chosen = CallChosen(before, first)
                /\ second.op = "post" => calling[o[2]].chosen = CallChosen(mid, second)

\* C11: a register or unregister call whose name list holds an empty name or
\* the all-events sentinel raises InvalidEventError, and leaves the table, the
\* queue and the event counter as they were (nothing is added, removed or
\* posted).
C11_InvalidNamesRejected ==
    [][\A h \in Handlers, events \in EventLists :
          ((Register(h, events) \/ Unregister(h, events)) /\ ~validate_events(events))
          => /\ raised' = "InvalidEventError"
             /\ event_handlers' = event_handlers
             /\ event_queue' = event_queue
             /\ next_id' = next_id
             /\ posted' = posted]_vars

\* unit u was put on the queue before unit v: by an earlier post, or by the
\* same post for a handler earlier in its list
PutBefore(u, v) == u.id < v.id \/ (u.id = v.id /\ u.pos < v.pos)

\* C12: the worker starts the notification threads in the order they were put
\* on the queue: the queue is in post order, the thread started is its head,
\* and every thread still queued was put there after it; so a callback's
\* notifications start in the order of the posts, whatever their names.
C12_StartedInQueueOrder ==
    [][/\ \A i, j \in DOMAIN event_queue' :
              i < j => PutBefore(event_queue'[i], event_queue'[j])
       /\ \A u \in threads' \ threads :
              /\ event_queue # <<>> /\ u = Head(event_queue)
              /\ event_queue' = Tail(event_queue)
              /\ \A i \in DOMAIN event_queue' : PutBefore(u, event_queue'[i])]_vars

\* C12's case: a callback's notification of one event has been started while
\* its notification of a later event, of another name, is still queued.
C12_Witness ==
    \E u \in threads : \E i \in DOMAIN event_queue :
        /\ event_queue[i].handler = u.handler
        /\ event_queue[i].name # u.name
        /\ u.id < event_queue[i].id

\* the thread of the post with this id for the handler at this place of its
\* list is on the queue
Queued(id, pos) ==
    \E i \in DOMAIN event_queue : event_queue[i].id = id /\ event_queue[i].pos = pos

\* C14: every notification thread put on the queue is eventually started by
\* the worker, whether or not the threads started before it ever return and
\* whether or not its callback is still registered: it leaves the queue, and a
\* thread leaves the queue only by being started.
C14_QueuedEventuallyStarted ==
    /\ \A id \in 1..MaxEvents, pos \in 1..Cardinality(Handlers) :
           Queued(id, pos) ~> ~Queued(id, pos)
    /\ [][\A i \in DOMAIN event_queue :
              (\A j \in DOMAIN event_queue' : event_queue'[j] # event_queue[i])
              => event_queue[i] \in threads']_vars

\* C14's case: a thread has been started while a thread started before it has
\* not returned, for a callback that the table no longer lists anywhere.
C14_Witness ==
    \E u, v \in threads :
        /\ PutBefore(v, u)
        /\ \A k \in DOMAIN event_handlers : ~InList(u.handler, event_handlers[k])
        /\ <<u.handler, u.name>> \notin held /\ <<u.handler, ALL_EVENTS>> \notin held

\* The callbacks registered for the name, in the order of the table's list, and
\* after them the callbacks registered for all events that are not among them.
RegisteredThenWildcard(name) ==
    LET ForName(h) == <<h, name>> \in held
        byName == SelectSeq(Get(event_handlers, name), ForName)
        Other(h) == <<h, ALL_EVENTS>> \in held /\ ~InList(h, byName)
    IN  byName \o SelectSeq(Get(event_handlers, ALL_EVENTS), Other)

\* a step that puts the threads of one new event on the queue together, behind
\* the threads of every event with a smaller id
PutTogether ==
    /\ QueueExtended
    /\ \A i \in DOMAIN NewUnits : NewUnits[i].id = next_id' /\ NewUnits[i].pos = i
    /\ \A i \in DOMAIN event_queue : event_queue[i].id < next_id'

\* C13: when two posts run at the same time, the threads of each are put on
\* the queue together, after the threads of the event with the smaller id, one
\* for each callback registered for the name, in registration order, followed
\* by one for each callback registered for all events and not yet included.
C13_PostsContiguousInOrder ==
    [][(\A c \in Callers : calling[c].call.op = "post") /\ next_id' # next_id
       => /\ PutTogether
          /\ [i \in DOMAIN NewUnits |-> NewUnits[i].handler]
                 = RegisteredThenWildcard(posted'.name)]_vars

\* C15: the id generate_id returns to a constructor was returned to no other
\* constructor before, and is larger than every id returned before the
\* constructor began; the counter never goes back.
C15_IdsUniqueIncreasing ==
    [][/\ next_id' >= next_id
       /\ \A m \in Makers :
              GenerateIdReturn(m) =>
                  /\ next_id \notin issued
                  /\ next_id > making[m].floor
                  /\ \A i \in issued : i # next_id]_vars

\* C15's case: ids have been returned to constructors that ran at the same
\* time: one is inside generate_id while the other waits for its lock.
C15_Witness ==
    /\ Cardinality(issued) >= 2
    /\ \E m, n \in Makers :
           /\ making[m].pc = "stored"
           /\ making[n].pc = "call"
           /\ making[n].floor < next_id


\* The incoming payload holds every expected key with an equal value.
FullMatch(expected, payload) ==
    \A k \in DOMAIN expected : k \in DOMAIN payload /\ payload[k] = expected[k]

\* C16: when on_event receives an event whose name is watched, the name is
\* removed from the watch set exactly when every expected key is present in the
\* incoming payload with an equal value; on a mismatch (a missing expected key
\* included) the watch set is unchanged, nothing is posted and the map stays
\* registered.
C16_RemovedIffFullMatch ==
    [][\A u \in threads :
        (OnEvent(u) /\ u.name \in DOMAIN events_to_watch)
        => LET full == FullMatch(events_to_watch[u.name], u.payload)
           IN  /\ (u.name \notin DOMAIN events_to_watch') <=> full
               /\ ~full => /\ events_to_watch' = events_to_watch
                           /\ next_id' = next_id
                           /\ event_queue' = event_queue
                           /\ event_handlers' = event_handlers]_vars

\* C17: from its construction on, no step adds a name to the map's watch set
\* (the set of watched names is a subset of its previous value, and the
\* payloads expected for the names still watched stay the same), so a name
\* that was removed is not watched again when the same event is repeated.
C17_WatchNeverGrows ==
    [][events_to_map # <<>>
       => /\ DOMAIN events_to_watch' \subseteq DOMAIN events_to_watch
          /\ \A n \in DOMAIN events_to_watch' : events_to_watch'[n] = events_to_watch[n]]_vars

\* "a" was removed, came again and was ignored while "b" is still watched.
C17_Witness ==
    /\ fired.repeated
    /\ DOMAIN events_to_watch = {"b"}
    /\ threads = {}
    /\ event_queue = <<>>

\* C18: the map posts its event exactly once: never twice, only from the
\* on_event call that removed the last watched name, with the name and the
\* payload given at construction; whenever the watch set of a constructed map
\* is empty and that call is past its post, the event has been posted. This
\* holds with several deliveries of watched events (duplicates included) started
\* at the same time.
C18_CompositeExactlyOnce ==
    /\ [](/\ fired.composites <= 1
          /\ fired.composites = 1
             => /\ DOMAIN events_to_watch = {}
                /\ fired.composite_payload = EventToPost.payload
          /\ (events_to_map # <<>> /\ DOMAIN events_to_watch = {} /\ on_event.pc # "post")
             => fired.composites = 1)
    /\ [][(next_id' # next_id /\ posted'.name = EventToPost.name)
          => /\ on_event.pc = "post"
             /\ DOMAIN events_to_watch = {}
             /\ fired.composites = 0
             /\ fired'.composites = 1
             /\ fired'.composite_id = posted'.id]_vars

\* The event has been posted while another delivery of a watched event, posted
\* before it, is still running.
C18_Witness ==
    /\ fired.composites = 1
    /\ \E u \in threads : u.handler = ON_EVENT /\ u.id < fired.composite_id

\* C19: when the watch set has become empty and the on_event call that emptied
\* it has returned, on_event is registered for none of the names the map was
\* watching and exactly one mapping_triggered event has been posted, carrying
\* the map's key, with an id larger than the id of the map's own event;
\* mapping_triggered is never posted twice, and only after the map's event.
C19_UnregisteredAndTriggeredOnce ==
    /\ [](/\ fired.triggers <= 1
          /\ fired.triggers = 1 => DOMAIN events_to_watch = {}
          /\ (events_to_map # <<>> /\ DOMAIN events_to_watch = {} /\ on_event.pc = "idle")
             => /\ \A i \in DOMAIN events_to_map :
                      ~InList(ON_EVENT, Get(event_handlers, events_to_map[i].name))
                /\ fired.composites = 1
                /\ fired.triggers = 1
                /\ fired.triggered_payload = ("key" :> MapKey)
                /\ fired.triggered_id > fired.composite_id)
    /\ [][(next_id' # next_id /\ posted'.name = MAPPING_TRIGGERED)
          => /\ fired.composites = 1
             /\ fired.triggers = 0
             /\ fired'.triggers = 1
             /\ fired'.triggered_id = posted'.id
             /\ posted'.id > fired.composite_id]_vars

\* A map of two names has fired and its on_event call has returned.
C19_Witness ==
    /\ Len(events_to_map) = 2
    /\ DOMAIN events_to_watch = {}
    /\ on_event.pc = "idle"
    /\ fired.triggers = 1

\* C20: once the map has posted its event, no step posts that event again or
\* changes the watch set, whatever watched events are posted afterwards or were
\* already being delivered; and once mapping_triggered has been posted, no step
\* posts it again.
C20_SatisfiedIsTerminal ==
    [][/\ fired.composites = 1
          => /\ fired'.composites = 1
             /\ events_to_watch' = events_to_watch
             /\ next_id' # next_id => posted'.name # EventToPost.name
       /\ fired.triggers = 1
          => /\ fired'.triggers = 1
             /\ fired'.triggered_id = fired.triggered_id
             /\ next_id' # next_id => posted'.name # MAPPING_TRIGGERED]_vars

\* After the map fired, a delivery that was in flight has returned and a
\* watched event has been posted again.
C20_Witness ==
    /\ fired.triggers = 1
    /\ fired.late
    /\ posted.name \in MapNames
    /\ posted.id > fired.triggered_id
    /\ threads = {}
    /\ event_queue = <<>>

\* s and t hold the same events the same number of times
IsPermutation(s, t) ==
    /\ Len(s) = Len(t)
    /\ \A e \in Members(s) \cup Members(t) :
          Cardinality({i \in DOMAIN s : s[i] = e}) = Cardinality({i \in DOMAIN t : t[i] = e})

\* C26: build_key gives two watch lists the same key when one is a
\* permutation of the other (lists in which two events share a name and differ
\* in payload included), and different keys when they differ in an event name,
\* a payload key or a payload value.
C26_KeyPermutationInvariant ==
    Len(built) = 2
    => /\ IsPermutation(built[1].events, built[2].events) => built[1].key = built[2].key
       /\ ~IsPermutation(built[1].events, built[2].events) => built[1].key # built[2].key

\* a notification of mapping_triggered for key is queued or started for the
\* manager
TriggeredPending(key) ==
    \E u \in Members(event_queue) \cup threads :
        u.handler = MANAGER /\ u.name = MAPPING_TRIGGERED /\ KeyOf(u.payload) = key

\* C21: when a map made by map_events has fired (its mapping_triggered is on
\* its way to the manager) while its key is in the manager's table, the key is
\* eventually absent from the table, with the worker and the manager's
\* callback scheduled fairly and without a call of remove_event_map_by_key.
C21_FiredKeyEventuallyAbsent ==
    \A key \in RemoveKeys :
        (TriggeredPending(key) /\ key \in DOMAIN event_maps) ~> (key \notin DOMAIN event_maps)

\* The manager's callback has just removed the key of a fired map: it posted
\* mapping_removed, and no caller removed anything.
C21_Witness ==
    /\ Len(maps) = 1
    /\ Len(posts) = 1
    /\ posts[1].name = MAPPING_REMOVED
    /\ raised = ""
    /\ \E i \in DOMAIN maps :
          /\ maps[i].key \notin DOMAIN event_maps
          /\ maps[i].key # EmptyKey
          /\ DOMAIN maps[i].events_to_watch = {}
          /\ maps[i].pc = "idle"
    /\ \A u \in Members(event_queue) \cup threads : u.name # MAPPING_TRIGGERED

\* the names of the events in a call's log
PostedNames(log) == {log[i].name : i \in DOMAIN log}

\* C22: map_events(events, e, False) for a watch list whose key is in the
\* manager's table raises DuplicateMappingError and makes no second map: the
\* table, the maps (their watch sets included) and the channel's registrations
\* are unchanged and no mapping_created event is posted.
C22_DuplicateMappingRejected ==
    [][\A events \in ManagerLists, e \in ManagerEventsToPost :
        (/\ MapEvents(events, e, FALSE)
         /\ ~Falsy(events, e)
         /\ ~InList(NullEvent, events)
         /\ build_key(events) \in DOMAIN event_maps)
        => /\ raised' = "DuplicateMappingError"
           /\ event_maps' = event_maps
           /\ maps' = maps
           /\ event_handlers' = event_handlers
           /\ MAPPING_CREATED \notin PostedNames(posts')]_vars

\* C23: map_events(events, e, True) for a watch list whose key is in the
\* manager's table returns that key (the key the map was stored under by the
\* first call), raises nothing, makes no new map, leaves the stored map as it
\* is and posts no event at all.
C23_IgnoreIfExistsIdempotent ==
    [][\A events \in ManagerLists, e \in ManagerEventsToPost :
        (/\ MapEvents(events, e, TRUE)
         /\ ~Falsy(events, e)
         /\ ~InList(NullEvent, events)
         /\ build_key(events) \in DOMAIN event_maps)
        => /\ raised' = ""
           /\ returned' = build_key(events)
           /\ returned' = maps[event_maps[returned']].key
           /\ event_maps' = event_maps
           /\ maps' = maps
           /\ posts' = <<>>
           /\ next_id' = next_id
           /\ event_queue' = event_queue
           /\ event_handlers' = event_handlers]_vars

\* map_events has just returned the key of a stored map without posting.
C23_Witness ==
    /\ returned # <<>>
    /\ returned \in DOMAIN event_maps
    /\ posts = <<>>
    /\ raised = ""

\* C24: map_events for valid events whose key is not in the manager's table
\* raises nothing and returns key = build_key(events); it adds exactly one
\* entry to the table, under that key, for one new map that watches every name
\* of the list and keeps the key and the event to post; the older entries and
\* maps are unchanged; the new map's on_event is registered for exactly the
\* names of the list; and exactly one mapping_created event is posted, with the
\* mapping as payload.
C24_MapEventsCreatesOneMap ==
    [][\A events \in ManagerLists, e \in ManagerEventsToPost, ignore_if_exists \in BOOLEAN :
        (/\ MapEvents(events, e, ignore_if_exists)
         /\ ~Falsy(events, e)
         /\ ~InList(NullEvent, events)
         /\ build_key(events) \notin DOMAIN event_maps)
        => LET key == build_key(events)
               n == Len(maps) + 1
               names == {events[i].name : i \in DOMAIN events}
           IN  /\ raised' = ""
               /\ returned' = key
               /\ DOMAIN event_maps' = DOMAIN event_maps \cup {key}
               /\ \A k \in DOMAIN event_maps : event_maps'[k] = event_maps[k]
               /\ event_maps'[key] = n
               /\ Len(maps') = n
               /\ \A i \in DOMAIN maps : maps'[i] = maps[i]
               /\ DOMAIN maps'[n].events_to_watch = names
               /\ maps'[n].pc = "idle"
               /\ maps'[n].key = key
               /\ maps'[n].event_to_post = e
               /\ \A name \in DOMAIN event_handlers' \cup names :
                     InList(MapHandler(n), Get(event_handlers', name)) <=> name \in names
               /\ Cardinality({i \in DOMAIN posts' : posts'[i].name = MAPPING_CREATED}) = 1
               /\ \A i \in DOMAIN posts' :
                     posts'[i].name = MAPPING_CREATED
                     => posts'[i].payload = build_event_mapping_payload(events, e)]_vars

\* map_events has just stored a map of two names next to an older entry.
C24_Witness ==
    /\ returned # <<>>
    /\ returned \in DOMAIN event_maps
    /\ Cardinality(DOMAIN event_maps) = 2
    /\ event_maps[returned] = Len(maps)
    /\ Len(maps[Len(maps)].events_to_map) = 2
    /\ Len(posts) = 2
    /\ posts[2].name = MAPPING_CREATED

\* no event of the list is an Event (the list may be empty)
NoValidEvent(events) == \A i \in DOMAIN events : events[i] = NullEvent

\* C25: map_events and EventMap(...) given an absent or empty watch list, a
\* watch list without a valid event, or no event to post raise
\* InvalidMappingEventsError and leave the manager's table, the maps and the
\* channel's registrations unchanged.
C25_InvalidMappingRejected ==
    [][\A events \in ManagerLists, e \in ManagerEventsToPost :
        (/\ \/ \E ignore_if_exists \in BOOLEAN : MapEvents(events, e, ignore_if_exists)
            \/ ConstructEventMap(events, e)
         /\ NoValidEvent(events) \/ e = NullEvent)
        => /\ raised' = "InvalidMappingEventsError"
           /\ event_maps' = event_maps
           /\ maps' = maps
           /\ event_handlers' = event_handlers]_vars

\* C27: remove_event_map_by_key with a key that is not in the manager's table
\* (the keys '' and None included) raises MappingNotFoundError and leaves the
\* table unchanged.
C27_RemoveAbsentKeyFails ==
    [][\A key \in RemoveKeys :
        (RemoveEventMapByKey(key) /\ key \notin DOMAIN event_maps)
        => /\ raised' = "MappingNotFoundError"
           /\ event_maps' = event_maps
           /\ maps' = maps]_vars

\* remove_event_map_by_key has just failed while the table holds an entry.
C27_Witness ==
    /\ raised = "MappingNotFoundError"
    /\ DOMAIN event_maps # {}
    /\ Len(posts) = 1
    /\ posts[1].name = "mapping_not_found"
    /\ posts[1].payload["key"] \in {EmptyKey, NullKey}

\* C28: remove_event_map_by_key with a key that is in the manager's table
\* removes that entry and no other, raises nothing, and posts exactly one
\* event, mapping_removed, whose payload is the removed mapping (its events to
\* map and its event to post).
C28_RemovePresentKey ==
    [][\A key \in RemoveKeys :
        (RemoveEventMapByKey(key) /\ key \in DOMAIN event_maps)
        => LET m == maps[event_maps[key]]
           IN  /\ raised' = ""
               /\ DOMAIN event_maps' = DOMAIN event_maps \ {key}
               /\ \A k \in DOMAIN event_maps' : event_maps'[k] = event_maps[k]
               /\ Len(posts') = 1
               /\ posts'[1].name = MAPPING_REMOVED
               /\ posts'[1].payload =
                     build_event_mapping_payload(m.events_to_map, m.event_to_post)]_vars

\* A caller has just removed one of two entries.
C28_Witness ==
    /\ raised = ""
    /\ Len(posts) = 1
    /\ posts[1].name = MAPPING_REMOVED
    /\ Cardinality(DOMAIN event_maps) = 1
    /\ Len(maps) = 2
    /\ \A i \in DOMAIN maps : maps[i].key # EmptyKey /\ DOMAIN maps[i].events_to_watch # {}

\* C29: when the manager's on_event receives mapping_triggered, it removes the
\* entry of the carried key if the table has one; if it has none, the table is
\* unchanged, nothing is raised and no mapping_not_found event is posted.
C29_TriggeredAbsentKeyTolerated ==
    [][\A u \in threads :
        (ManagerOnEvent(u) /\ u.name = MAPPING_TRIGGERED)
        => LET key == KeyOf(u.payload)
           IN  /\ raised' = ""
               /\ key \in DOMAIN event_maps
                  => /\ DOMAIN event_maps' = DOMAIN event_maps \ {key}
                     /\ \A k \in DOMAIN event_maps' : event_maps'[k] = event_maps[k]
               /\ key \notin DOMAIN event_maps
                  => /\ event_maps' = event_maps
                     /\ "mapping_not_found" \notin PostedNames(posts')]_vars

\* C30: constructing a NotifiableError raises it to the caller and posts
\* exactly one event, named after the error kind, whose payload keeps the keys
\* it was given, has 'error' (the kind, or the value the payload already had
\* under 'error') and has 'message' when a message is given.
C30_ErrorConstructionPostsEvent ==
    [][\A message \in ErrorMessages, error \in ErrorKinds, payload \in ErrorPayloads,
          exception \in BOOLEAN :
        RaiseNotifiable(message, error, payload, exception)
        => /\ raised' = "NotifiableError"
           /\ next_id' = next_id + 1
           /\ Len(posts') = 1
           /\ posts'[1].name = error
           /\ LET p == posts'[1].payload
              IN  /\ DOMAIN payload \subseteq DOMAIN p
                  /\ \A k \in DOMAIN payload : p[k] = payload[k]
                  /\ "error" \in DOMAIN p
                  /\ "error" \notin DOMAIN payload => p["error"] = error
                  /\ message # "" => "message" \in DOMAIN p /\ p["message"] = message
                  /\ message = "" => "message" \notin DOMAIN p]_vars

\* C31: whatever channels are added and removed, the dispatch manager holds
\* the default channel '' and no call addressed to the default channel fails
\* for want of it.
C31_DefaultChannelAlwaysHeld ==
    /\ "" \in event_dispatchers
    /\ raised # "KeyError"

\* C32: a post on the channel appends its event to the log iff logging is
\* enabled and (the post notifies some callback or log_event_if_no_handlers is
\* set), and nothing else appends; the log is never longer than 5 and holds
\* the events appended last, in the order they were posted.
C32_LogKeepsLastFive ==
    /\ [](/\ Len(event_log) <= 5
          /\ event_log = SubSeq(logged, IF Len(logged) > 5 THEN Len(logged) - 4 ELSE 1,
                                Len(logged))
          /\ \A i, j \in DOMAIN event_log : i < j => event_log[i].id < event_log[j].id)
    /\ [][/\ next_id' # next_id =>
                IF log_event /\ (NewUnits # <<>> \/ log_event_if_no_handlers)
                THEN logged' = Append(logged, posted') /\ posted'.id = next_id'
                ELSE logged' = logged
          /\ next_id' = next_id => logged' = logged \/ "" \notin event_dispatchers]_vars

\* Six events or more have been appended, so the log has dropped its oldest,
\* and some post was not logged.
C32_Witness ==
    /\ Len(logged) >= 6
    /\ Len(event_log) = 5
    /\ event_log[5] = logged[Len(logged)]
    /\ next_id > Len(logged)

\* C33: post_event leaves the registration table as it was: the same names,
\* and under every name the same list of callbacks.
C33_PostLeavesTableAlone ==
    [][\A name \in PostNames, excl \in Handlers \cup {None} :
          PostEvent(name, excl, FALSE)
          => /\ DOMAIN event_handlers' = DOMAIN event_handlers
             /\ \A k \in DOMAIN event_handlers : event_handlers'[k] = event_handlers[k]]_vars

\* the i-th map was stored by map_events and is no longer stored under its key
Unstored(i) ==
    /\ maps[i].key # EmptyKey
    /\ maps[i].key \notin DOMAIN event_maps \/ event_maps[maps[i].key] # i

\* C34: a map that remove_event_map_by_key took out of the table while it was
\* Active is inert: its on_event is registered for no name, and it is never
\* on its way to post its event or mapping_triggered.
C34_RemovedMapIsInert ==
    \A i \in DOMAIN maps :
        Unstored(i) =>
            /\ maps[i].events_to_watch # <<>> =>
                   \A k \in DOMAIN event_handlers : ~InList(MapHandler(i), event_handlers[k])
            /\ maps[i].pc \notin {"post", "stop", "triggered"}

\* the maps that have posted their event
Composites == {i \in DOMAIN maps : maps[i].events_to_watch = <<>> /\ maps[i].pc # "post"}

\* C35: when two map_events calls with the same watch list and
\* ignore_if_exists=False overlap, one map is constructed, one call returns the
\* key and the other raises DuplicateMappingError, and the event to post is
\* posted once at most.
C35_ConcurrentMapEventsCreateOne ==
    (/\ \A c \in Callers : /\ calling[c].call = RaceCall(FALSE)
                           /\ calling[c].pc \in {"returned", "DuplicateMappingError"}
     /\ \E c \in Callers : calling[c].chosen = <<"concurrent">>)
    => /\ Len(maps) = 1
       /\ {calling[c].pc : c \in Callers} = {"returned", "DuplicateMappingError"}
       /\ Cardinality(Composites) <= 1

\* C36: when map_events finds the key in the table, the map stored under it is
\* Active: its watch set is not empty.
C36_ExistingMappingIsActive ==
    [][\A c \in Callers, ignore_if_exists \in BOOLEAN :
          (MapEventsEnter(c, ignore_if_exists) /\ HasMapping(event_maps, build_key(RaceEvents)))
          => maps[event_maps[build_key(RaceEvents)]].events_to_watch # <<>>]_vars

\* C38: when set_event_map_manager replaces the EventMapManager, the replaced
\* manager's on_event is no longer registered for mapping_triggered.
C38_ReplacedMapperUnregistered ==
    [][(event_mapper = MANAGER /\ event_mapper' # MANAGER)
       => ~InList(MANAGER, Get(event_handlers', MAPPING_TRIGGERED))]_vars

\* C39: when concurrent register / unregister calls have returned, the
\* handler_registered / handler_unregistered event posted last tells what the
\* last register / unregister of its callback and names did: after
\* handler_registered the callback is registered for the names, after
\* handler_unregistered it is not.
C39_AdminEventsInMutationOrder ==
    (AllDone /\ posted.handler # None
             /\ posted.name \in {HANDLER_REGISTERED, HANDLER_UNREGISTERED})
    => LET names == Members(EffectiveEvents(posted.events))
       IN  /\ posted.name = HANDLER_REGISTERED =>
                  \A k \in names : <<posted.handler, k>> \in held
           /\ posted.name = HANDLER_UNREGISTERED =>
                  \A k \in names : <<posted.handler, k>> \notin held

\* C40: a register call that newly registers its callback for all events or
\* for the name handler_registered notifies that callback, once, of the
\* handler_registered event the call posts.
C40_RegisteredCallbackGetsOwnEvent ==
    [][\A h \in Handlers, events \in EventLists :
          (/\ Register(h, events)
           /\ validate_events(events)
           /\ {ALL_EVENTS, HANDLER_REGISTERED} \cap NamesToAdd(h, EffectiveEvents(events)) # {})
          => /\ posted'.name = HANDLER_REGISTERED
             /\ posted'.handler = h
             /\ posted'.id = next_id'
             /\ NewUnitsFor(h) = 1
             /\ \A i \in DOMAIN NewUnits :
                    NewUnits[i].id = posted'.id /\ NewUnits[i].name = HANDLER_REGISTERED]_vars

\* The first call registered its callback for all events, and the thread that
\* notifies the callback of its own handler_registered event has been started.
C40_Witness ==
    /\ next_id = 1
    /\ posted.name = HANDLER_REGISTERED
    /\ posted.events = <<>>
    /\ <<posted.handler, ALL_EVENTS>> \in held
    /\ \E u \in threads : u.handler = posted.handler /\ u.id = 1

\* some thread inside a call can do its next lock operation
SomeCallCanStep ==
    \E t \in LockThreads :
        /\ running[t].pc = "running"
        /\ \/ Head(running[t].ops)[1] = "release"
           \/ CanAcquire(Head(running[t].ops)[2], t)

\* C37: no interleaving of concurrent register, unregister, post, map_events
\* and EventMap.on_event executions deadlocks: while a call is running some
\* running call can take its next step, and every call that was started
\* returns, whether or not any other call (a callback among them) is ever
\* started.
C37_CallsNeverDeadlock ==
    /\ []((\E t \in LockThreads : running[t].pc = "running") => SomeCallCanStep)
    /\ \A t \in LockThreads : (running[t].pc = "running") ~> (running[t].pc = "returned")

\* A chain of waiting threads: one re-entered the default channel's lock to
\* post an error event, one holds the lock of channel "x" and waits for the
\* default channel's, one holds the map's lock and waits for that of "x".
C37_Witness ==
    \E t, u, v \in LockThreads :
        /\ locks[""] = [owner |-> t, depth |-> 2]
        /\ locks["x"].owner = u
        /\ Head(running[u].ops) = <<"acquire", "">>
        /\ locks["map"].owner = v
        /\ Head(running[v].ops) = <<"acquire", "x">>

====
